---- MODULE Spec2Model ----
(***************************************************************************)
(* Model of datashare/streamlit/streamlit_app.py: a Streamlit script that  *)
(* is executed top to bottom once per user interaction (a "pass").  The    *)
(* state is st.session_state plus the state of the two key-less widgets    *)
(* whose value is not derived from session_state; one action is one user   *)
(* interaction followed by the whole pass it triggers (and the pass that   *)
(* st.rerun() starts).                                                     *)
(***************************************************************************)
EXTENDS Integers, Sequences, FiniteSets, TLC

(***************************************************************************)
(* Python / JSON values.  None is JNull; a dict is an insertion-ordered    *)
(* sequence of <<key, value>> pairs with pairwise distinct keys.           *)
(* A Python str value is a sequence of characters (the code splits table   *)
(* names, strips the reason and parses dates); dict keys that the code     *)
(* writes as literals ("filter", "mask", "tables", ...) are TLA+ strings.  *)
(***************************************************************************)
JNull == [k |-> "null"]
JStr(s) == [k |-> "str", s |-> s]
JNum(n) == [k |-> "num", n |-> n]
JArr(a) == [k |-> "arr", a |-> a]
JObj(o) == [k |-> "obj", o |-> o]

IsNone(v) == v.k = "null"
IsStr(v) == v.k = "str"
IsDict(v) == v.k = "obj"
IsList(v) == v.k = "arr"

\* Python truthiness of a value: None, "", 0, [] and {} are falsy.
Truthy(v) ==
    CASE v.k = "null" -> FALSE
      [] v.k = "str" -> v.s # <<>>
      [] v.k = "num" -> v.n # 0
      [] v.k = "arr" -> v.a # <<>>
      [] v.k = "obj" -> v.o # <<>>

\* dict operations on the pair sequence
DictKeys(o) == [i \in 1..Len(o) |-> o[i][1]]
DictHas(o, key) == \E i \in 1..Len(o) : o[i][1] = key
DictIdx(o, key) == CHOOSE i \in 1..Len(o) : o[i][1] = key
DictGet(o, key) == o[DictIdx(o, key)][2]
DictGetOr(o, key, dflt) == IF DictHas(o, key) THEN DictGet(o, key) ELSE dflt
DictSet(o, key, val) ==
    IF DictHas(o, key) THEN [o EXCEPT ![DictIdx(o, key)] = <<key, val>>]
    ELSE Append(o, <<key, val>>)
DictSetDefault(o, key, val) == IF DictHas(o, key) THEN o ELSE Append(o, <<key, val>>)
DictPop(o, key) == SelectSeq(o, LAMBDA p : p[1] # key)

SeqHas(q, x) == \E i \in 1..Len(q) : q[i] = x
SeqSet(q) == {q[i] : i \in 1..Len(q)}
\* list.remove(x): drops the first occurrence
SeqRemoveFirst(q, x) ==
    LET i == CHOOSE j \in 1..Len(q) : q[j] = x /\ \A h \in 1..(j - 1) : q[h] # x
    IN  SubSeq(q, 1, i - 1) \o SubSeq(q, i + 1, Len(q))
SeqIndex(q, x) == CHOOSE j \in 1..Len(q) : q[j] = x /\ \A h \in 1..(j - 1) : q[h] # x
NoDup(q) == \A i, j \in 1..Len(q) : q[i] = q[j] => i = j

(***************************************************************************)
(* json.load / json.loads.  A text is either undecodable or the syntax     *)
(* tree of a JSON value, in which an object may repeat a key; the parser   *)
(* builds dicts, where a repeated key keeps its first position and takes   *)
(* its last value.                                                         *)
(***************************************************************************)
NotJson == [text |-> "garbage"]
JsonText(tree) == [text |-> "json", tree |-> tree]

RECURSIVE JsonBuild(_)
RECURSIVE JsonBuildPairs(_, _)
RECURSIVE JsonBuildItems(_)
JsonBuildPairs(pairs, acc) ==
    IF pairs = <<>> THEN acc
    ELSE JsonBuildPairs(Tail(pairs), DictSet(acc, Head(pairs)[1], JsonBuild(Head(pairs)[2])))
JsonBuildItems(items) ==
    IF items = <<>> THEN <<>>
    ELSE <<JsonBuild(Head(items))>> \o JsonBuildItems(Tail(items))
JsonBuild(tree) ==
    CASE tree.k = "obj" -> JObj(JsonBuildPairs(tree.o, <<>>))
      [] tree.k = "arr" -> JArr(JsonBuildItems(tree.a))
      [] OTHER -> tree

JsonDecodes(text) == text.text = "json"
JsonLoads(text) == JsonBuild(text.tree)
\* json.dumps of a value built from dicts, lists, strings and None
JsonDumps(v) == JsonText(v)

(***************************************************************************)
(* Dates: datetime.date as <<year, month, day>>; str(date) and             *)
(* datetime.strptime(s, '%Y-%m-%d') on character sequences.                *)
(***************************************************************************)
Digits == <<"0", "1", "2", "3", "4", "5", "6", "7", "8", "9">>
IsDigit(c) == \E i \in 1..10 : Digits[i] = c
DigitVal(c) == (CHOOSE i \in 1..10 : Digits[i] = c) - 1

RECURSIVE Pow10(_)
Pow10(n) == IF n = 0 THEN 1 ELSE 10 * Pow10(n - 1)
ZeroPad(n, w) == [i \in 1..w |-> Digits[((n \div Pow10(w - i)) % 10) + 1]]

RECURSIVE DigitsVal(_)
DigitsVal(cs) == IF cs = <<>> THEN 0 ELSE 10 * DigitsVal(SubSeq(cs, 1, Len(cs) - 1)) + DigitVal(cs[Len(cs)])
AllDigits(cs) == \A i \in 1..Len(cs) : IsDigit(cs[i])

IsLeap(y) == (y % 4 = 0 /\ y % 100 # 0) \/ y % 400 = 0
DaysInMonth(y, m) ==
    IF m = 2 THEN (IF IsLeap(y) THEN 29 ELSE 28)
    ELSE IF m \in {4, 6, 9, 11} THEN 30 ELSE 31

DateLE(a, b) ==
    \/ a[1] < b[1]
    \/ a[1] = b[1] /\ a[2] < b[2]
    \/ a[1] = b[1] /\ a[2] = b[2] /\ a[3] <= b[3]

NextDay(d) ==
    IF d[3] < DaysInMonth(d[1], d[2]) THEN <<d[1], d[2], d[3] + 1>>
    ELSE IF d[2] < 12 THEN <<d[1], d[2] + 1, 1>>
    ELSE <<d[1] + 1, 1, 1>>
RECURSIVE AddDays(_, _)
AddDays(d, n) == IF n = 0 THEN d ELSE AddDays(NextDay(d), n - 1)

\* str(date): ISO format, zero padded
DateStr(d) == ZeroPad(d[1], 4) \o <<"-">> \o ZeroPad(d[2], 2) \o <<"-">> \o ZeroPad(d[3], 2)

\* the positions of "-" in a character sequence
Dashes(cs) == {i \in 1..Len(cs) : cs[i] = "-"}
\* strptime(cs, '%Y-%m-%d'): four digits, one or two digits, one or two
\* digits, a month in 1..12 and a day that exists in that month.
StrptimeOk(cs) ==
    /\ Cardinality(Dashes(cs)) = 2
    /\ LET i == CHOOSE x \in Dashes(cs) : \A y \in Dashes(cs) : x <= y
           j == CHOOSE x \in Dashes(cs) : \A y \in Dashes(cs) : y <= x
           ys == SubSeq(cs, 1, i - 1)
           ms == SubSeq(cs, i + 1, j - 1)
           ds == SubSeq(cs, j + 1, Len(cs))
       IN  /\ Len(ys) = 4 /\ AllDigits(ys) /\ DigitsVal(ys) >= 1
           /\ Len(ms) \in {1, 2} /\ AllDigits(ms) /\ DigitsVal(ms) \in 1..12
           /\ Len(ds) \in {1, 2} /\ AllDigits(ds)
           /\ DigitsVal(ds) \in 1..DaysInMonth(DigitsVal(ys), DigitsVal(ms))
Strptime(cs) ==
    LET i == CHOOSE x \in Dashes(cs) : \A y \in Dashes(cs) : x <= y
        j == CHOOSE x \in Dashes(cs) : \A y \in Dashes(cs) : y <= x
    IN  <<DigitsVal(SubSeq(cs, 1, i - 1)), DigitsVal(SubSeq(cs, i + 1, j - 1)),
          DigitsVal(SubSeq(cs, j + 1, Len(cs)))>>

\* str.strip() on a character sequence
RECURSIVE LStrip(_)
LStrip(cs) == IF cs # <<>> /\ Head(cs) = " " THEN LStrip(Tail(cs)) ELSE cs
RECURSIVE RStrip(_)
RStrip(cs) == IF cs # <<>> /\ cs[Len(cs)] = " " THEN RStrip(SubSeq(cs, 1, Len(cs) - 1)) ELSE cs
Strip(cs) == RStrip(LStrip(cs))

\* str.split('.') on a character sequence: the part before the first "."
SplitFirst(cs) ==
    IF \E i \in 1..Len(cs) : cs[i] = "."
    THEN SubSeq(cs, 1, (CHOOSE i \in 1..Len(cs) : cs[i] = "." /\ \A h \in 1..(i - 1) : cs[h] # ".") - 1)
    ELSE cs

(***************************************************************************)
(* The world outside the script: the calendar day, the warehouse catalog,  *)
(* the users and config.toml.  Names are kept short.                       *)
(***************************************************************************)
Today == <<2024, 2, 28>>
Earlier == <<2023, 12, 31>>
NeverExpires == <<9999, 12, 31>>

\* largest max_retention_days that a session's config.toml is drawn with
MaxRetentionDays == 1

SALES == <<"S", "A">>
HR == <<"H", "R">>
PO == <<"P", ".", "O">>
PC == <<"P", ".", "C">>
RV == <<"R", ".", "V">>
ST == <<"S", ".", "T">>
COL_D == <<"D">>
COL_E == <<"E">>
TAG == <<"T", "G">>
USER_U == <<"U">>
DEV == <<"D", "E", "V">>

\* SHOW DATABASES
WarehouseDatabases == <<SALES, HR>>
\* INFORMATION_SCHEMA.TABLES of a database, ORDER BY TABLENAME, after the
\* NOT LIKE patterns of exclude_table_pattern
WarehouseTables(db) ==
    IF db = SALES THEN <<PC, PO>> ELSE IF db = HR THEN <<RV, ST>> ELSE <<>>
\* INFORMATION_SCHEMA.COLUMNS of a table: all columns, and the date-typed ones
WarehouseColumns(db, table) ==
    IF ~SeqHas(WarehouseTables(db), table) THEN [all_columns |-> <<>>, date_columns |-> <<>>]
    ELSE IF table = PO THEN [all_columns |-> <<COL_D, COL_E>>, date_columns |-> <<COL_D>>]
    ELSE [all_columns |-> <<COL_E>>, date_columns |-> <<>>]
\* SNOWFLAKE.ACCOUNT_USAGE.USERS
WarehouseUsers == <<USER_U>>

\* config.toml [app_settings]; the broken value is what get_initial_config
\* stores when reading it fails (an empty list)
AppSettings(max_days, ref_db) ==
    [ok |-> TRUE, max_retention_days |-> max_days, reference_database |-> ref_db,
     environments |-> <<DEV>>, account_name |-> <<"A", "C">>,
     share_name_template |-> <<"<DB>", "_", "<ENV>">>]
BrokenSettings ==
    [ok |-> FALSE, max_retention_days |-> 0, reference_database |-> <<>>,
     environments |-> <<>>, account_name |-> <<>>, share_name_template |-> <<>>]

(***************************************************************************)
(* One pass works on a record s: the keys of st.session_state (s.present   *)
(* is the set of keys that exist; a deleted key holds its blank value),    *)
(* the state of the key-less requestor and certification widgets, and what *)
(* the pass has produced so far: status ("run" while the script is         *)
(* executing, "rerun" after st.rerun(), "stop" after st.stop(), "crash"    *)
(* after an uncaught exception), the messages shown, the widgets rendered, *)
(* the export document and the statements sent for the share.              *)
(***************************************************************************)
KeysPreserved == {"initial_config", "db_list"}
KeysInitialised ==
    {"database_selected", "source_db_name", "available_tables", "selected_tables",
     "table_transforms", "current_transform_table", "global_filter_date",
     "data_retention_date", "cached_table_metadata", "share_requested_by",
     "share_requested_reason"}

EmptyCache == [p \in {} |-> 0]

BlankSession ==
    [present |-> {},
     initial_config |-> BrokenSettings,
     db_list |-> <<>>,
     database_selected |-> FALSE,
     source_db_name |-> JNull,
     available_tables |-> <<>>,
     selected_tables |-> <<>>,
     table_transforms |-> <<>>,
     current_transform_table |-> JNull,
     global_filter_date |-> Today,
     data_retention_date |-> Today,
     cached_table_metadata |-> EmptyCache,
     share_requested_by |-> JNull,
     share_requested_reason |-> JStr(<<>>),
     requestor_widget |-> JNull,
     certify_widget |-> FALSE,
     status |-> "run",
     messages |-> {},
     rendered |-> {},
     final_json_output |-> JNull,
     sql_log |-> <<>>]

Running(s) == s.status = "run"
Has(s, key) == key \in s.present
\* an uncaught exception ends the pass; Streamlit shows it
Crash(s, what) == [s EXCEPT !.status = "crash", !.messages = @ \cup {what}]
Show(s, msg) == [s EXCEPT !.messages = @ \cup {msg}]
Render(s, w) == [s EXCEPT !.rendered = @ \cup {w}]

\* faulty variant of ResetApp: cached_table_metadata is preserved as well
ResetAppKeepingCache(s) ==
    [s EXCEPT !.present = @ \cap (KeysPreserved \cup {"cached_table_metadata"}),
              !.database_selected = BlankSession.database_selected,
              !.source_db_name = BlankSession.source_db_name,
              !.available_tables = BlankSession.available_tables,
              !.selected_tables = BlankSession.selected_tables,
              !.table_transforms = BlankSession.table_transforms,
              !.current_transform_table = BlankSession.current_transform_table,
              !.global_filter_date = BlankSession.global_filter_date,
              !.data_retention_date = BlankSession.data_retention_date,
              !.share_requested_by = BlankSession.share_requested_by,
              !.share_requested_reason = BlankSession.share_requested_reason]

\* reset_app without its st.rerun(): every key but the preserved ones is deleted
ResetApp(s) ==
    [s EXCEPT !.present = @ \cap KeysPreserved,
              !.database_selected = BlankSession.database_selected,
              !.source_db_name = BlankSession.source_db_name,
              !.available_tables = BlankSession.available_tables,
              !.selected_tables = BlankSession.selected_tables,
              !.table_transforms = BlankSession.table_transforms,
              !.current_transform_table = BlankSession.current_transform_table,
              !.global_filter_date = BlankSession.global_filter_date,
              !.data_retention_date = BlankSession.data_retention_date,
              !.cached_table_metadata = BlankSession.cached_table_metadata,
              !.share_requested_by = BlankSession.share_requested_by,
              !.share_requested_reason = BlankSession.share_requested_reason]

\* the st.session_state.setdefault lines at the top of the script
SetDefaults(s) ==
    [s EXCEPT !.present = @ \cup KeysInitialised,
              !.database_selected = IF Has(s, "database_selected") THEN @ ELSE FALSE,
              !.source_db_name = IF Has(s, "source_db_name") THEN @ ELSE JNull,
              !.available_tables = IF Has(s, "available_tables") THEN @ ELSE <<>>,
              !.selected_tables = IF Has(s, "selected_tables") THEN @ ELSE <<>>,
              !.table_transforms = IF Has(s, "table_transforms") THEN @ ELSE <<>>,
              !.current_transform_table = IF Has(s, "current_transform_table") THEN @ ELSE JNull,
              !.global_filter_date = IF Has(s, "global_filter_date") THEN @ ELSE Today,
              !.data_retention_date = IF Has(s, "data_retention_date") THEN @ ELSE Today,
              !.cached_table_metadata = IF Has(s, "cached_table_metadata") THEN @ ELSE EmptyCache,
              !.share_requested_by = IF Has(s, "share_requested_by") THEN @ ELSE JNull,
              !.share_requested_reason = IF Has(s, "share_requested_reason") THEN @ ELSE JStr(<<>>)]

\* get_initial_config: read config.toml once per session; toml is what the
\* read gives (BrokenSettings when it raises)
GetInitialConfig(s, toml) ==
    IF Has(s, "initial_config") THEN s
    ELSE IF toml.ok
         THEN [s EXCEPT !.present = @ \cup {"initial_config", "data_retention_date"},
                        !.initial_config = toml,
                        !.data_retention_date = AddDays(Today, toml.max_retention_days)]
         ELSE Show([s EXCEPT !.present = @ \cup {"initial_config"},
                             !.initial_config = BrokenSettings],
                   "Error fetching config")

\* st.image(st.session_state.initial_config["logo_url"]) and the title
Header(s) ==
    IF s.initial_config.ok THEN s ELSE Crash(s, "TypeError: initial_config")

\* get_table_list: the table list, or [] when the query fails
GetTableList(db, ok) == IF ok /\ IsStr(db) THEN WarehouseTables(db.s) ELSE <<>>

(***************************************************************************)
(* process_uploaded_config.  The steps up to reset_app validate nothing    *)
(* but the two required keys; everything after reset_app can still raise,  *)
(* and the except clauses only report.                                     *)
(***************************************************************************)
KeyChars(key) == IF key = "database_name" THEN <<"database_name">> ELSE <<"tables">>
\* key in config_data, for the container types json.load can return;
\* "raise" stands for the TypeError of a number or None
InDoc(doc, key) ==
    CASE doc.k = "obj" -> IF DictHas(doc.o, key) THEN "yes" ELSE "no"
      [] doc.k = "arr" -> IF SeqHas(doc.a, JStr(KeyChars(key))) THEN "yes" ELSE "no"
      [] doc.k = "str" -> "no"
      [] OTHER -> "raise"

LoadError(s) == Show(s, "An error occurred while processing the file")

\* faulty variant of LoadedFilterDate: without filter_date in the document
\* the date of the session is kept
LoadedFilterDateKept(s, filter_str) ==
    IF Truthy(filter_str) THEN Strptime(filter_str.s) ELSE s.global_filter_date
\* lines 192-195: the filter date a load stores; s is the session before it
LoadedFilterDate(s, filter_str) ==
    IF Truthy(filter_str) THEN Strptime(filter_str.s) ELSE Today

\* faulty variant of Populate: line 182, which empties cached_table_metadata,
\* left out and the cache preserved by the reset
PopulateKeepingCache(s, doc, tables_ok) ==
    LET db_name == DictGet(doc.o, "database_name")
        tables_data == DictGet(doc.o, "tables")
        filter_str == DictGetOr(doc.o, "filter_date", JNull)
        retention_str == DictGetOr(doc.o, "data_retention_date", JNull)
        s1 == [ResetApp(s) EXCEPT
                 !.present = @ \cup {"cached_table_metadata", "database_selected", "source_db_name"},
                 !.cached_table_metadata = s.cached_table_metadata,
                 !.database_selected = TRUE,
                 !.source_db_name = db_name]
    IN  IF ~IsDict(tables_data) THEN LoadError(s1)
        ELSE
        LET s2 == [s1 EXCEPT
                     !.present = @ \cup {"selected_tables", "table_transforms",
                                         "share_requested_by", "share_requested_reason"},
                     !.selected_tables = DictKeys(tables_data.o),
                     !.table_transforms = tables_data.o,
                     !.share_requested_by = DictGetOr(doc.o, "share_requested_by", JNull),
                     !.share_requested_reason = DictGetOr(doc.o, "share_requested_reason", JNull)]
        IN  IF ~IsStr(retention_str) \/ ~StrptimeOk(retention_str.s) THEN LoadError(s2)
            ELSE
            LET s3 == [s2 EXCEPT !.present = @ \cup {"data_retention_date"},
                                 !.data_retention_date = Strptime(retention_str.s)]
            IN  IF Truthy(filter_str) /\ (~IsStr(filter_str) \/ ~StrptimeOk(filter_str.s))
                THEN LoadError(s3)
                ELSE
                LET s4 == [s3 EXCEPT
                             !.present = @ \cup {"global_filter_date"},
                             !.global_filter_date = LoadedFilterDate(s, filter_str)]
                    s5 == IF s4.selected_tables # <<>>
                          THEN [s4 EXCEPT !.present = @ \cup {"current_transform_table"},
                                          !.current_transform_table = JStr(s4.selected_tables[1])]
                          ELSE s4
                IN  [s5 EXCEPT !.present = @ \cup {"available_tables"},
                               !.available_tables = GetTableList(db_name, tables_ok),
                               !.status = "rerun"]

\* lines 178-207, entered with the two keys present in a dict
Populate(s, doc, tables_ok) ==
    LET db_name == DictGet(doc.o, "database_name")
        tables_data == DictGet(doc.o, "tables")
        filter_str == DictGetOr(doc.o, "filter_date", JNull)
        retention_str == DictGetOr(doc.o, "data_retention_date", JNull)
        s1 == [ResetApp(s) EXCEPT
                 !.present = @ \cup {"cached_table_metadata", "database_selected", "source_db_name"},
                 !.cached_table_metadata = EmptyCache,
                 !.database_selected = TRUE,
                 !.source_db_name = db_name]
    IN  IF ~IsDict(tables_data) THEN LoadError(s1)
        ELSE
        LET s2 == [s1 EXCEPT
                     !.present = @ \cup {"selected_tables", "table_transforms",
                                         "share_requested_by", "share_requested_reason"},
                     !.selected_tables = DictKeys(tables_data.o),
                     !.table_transforms = tables_data.o,
                     !.share_requested_by = DictGetOr(doc.o, "share_requested_by", JNull),
                     !.share_requested_reason = DictGetOr(doc.o, "share_requested_reason", JNull)]
        IN  IF ~IsStr(retention_str) \/ ~StrptimeOk(retention_str.s) THEN LoadError(s2)
            ELSE
            LET s3 == [s2 EXCEPT !.present = @ \cup {"data_retention_date"},
                                 !.data_retention_date = Strptime(retention_str.s)]
            IN  IF Truthy(filter_str) /\ (~IsStr(filter_str) \/ ~StrptimeOk(filter_str.s))
                THEN LoadError(s3)
                ELSE
                LET s4 == [s3 EXCEPT
                             !.present = @ \cup {"global_filter_date"},
                             !.global_filter_date = LoadedFilterDate(s, filter_str)]
                    s5 == IF s4.selected_tables # <<>>
                          THEN [s4 EXCEPT !.present = @ \cup {"current_transform_table"},
                                          !.current_transform_table = JStr(s4.selected_tables[1])]
                          ELSE s4
                IN  [s5 EXCEPT !.present = @ \cup {"available_tables"},
                               !.available_tables = GetTableList(db_name, tables_ok),
                               !.status = "rerun"]

\* faulty variant of ProcessUploadedConfig: reset_app called before the test
\* for the two required keys
ProcessUploadedConfigResetFirst(s, file, tables_ok) ==
    IF ~JsonDecodes(file) THEN Show(s, "Invalid JSON file")
    ELSE
    LET doc == JsonLoads(file)
        has_db == InDoc(doc, "database_name")
        has_tables == IF has_db = "yes" THEN InDoc(doc, "tables") ELSE has_db
    IN  IF has_db = "raise" THEN LoadError(s)
        ELSE IF has_db = "no" \/ has_tables = "no"
             THEN Show(ResetApp(s), "Invalid JSON format")
        ELSE IF ~IsDict(doc) THEN LoadError(s)
        ELSE Populate(s, doc, tables_ok)

ProcessUploadedConfig(s, file, tables_ok) ==
    IF ~JsonDecodes(file) THEN Show(s, "Invalid JSON file")
    ELSE
    LET doc == JsonLoads(file)
        has_db == InDoc(doc, "database_name")
        has_tables == IF has_db = "yes" THEN InDoc(doc, "tables") ELSE has_db
    IN  IF has_db = "raise" THEN LoadError(s)
        ELSE IF has_db = "no" \/ has_tables = "no" THEN Show(s, "Invalid JSON format")
        ELSE IF ~IsDict(doc) THEN LoadError(s)
        ELSE Populate(s, doc, tables_ok)

(***************************************************************************)
(* The sections of the script, in the order of the file.  ev is the user   *)
(* interaction that triggered the pass ([type, arg]); wh is how the        *)
(* warehouse answers during it.                                            *)
(***************************************************************************)
\* get_db_list: cached in session_state, also when the query failed
GetDbList(s, dbs_ok) ==
    IF Has(s, "db_list") THEN s
    ELSE IF dbs_ok
         THEN [s EXCEPT !.present = @ \cup {"db_list"}, !.db_list = WarehouseDatabases]
         ELSE Show([s EXCEPT !.present = @ \cup {"db_list"}, !.db_list = <<>>],
                   "Error fetching databases")

\* lines 259-267: the uploader and the Load Configuration button
UploadSection(s, ev, wh) ==
    LET s1 == Render(s, "load")
    IN  IF ev.type = "load" THEN ProcessUploadedConfig(s1, ev.arg, wh.tables_ok) ELSE s1

\* faulty variant of DatabaseSection: the database can be confirmed again
\* while one is selected
DatabaseSectionReselecting(s, ev, wh) ==
    LET s1 == GetDbList(s, wh.dbs_ok)
    IN  IF ev.type = "confirm_db"
        THEN [s1 EXCEPT !.database_selected = TRUE,
                        !.source_db_name = JStr(ev.arg),
                        !.available_tables = GetTableList(JStr(ev.arg), wh.tables_ok),
                        !.status = "rerun"]
        ELSE IF ev.type = "reset" THEN [ResetApp(s) EXCEPT !.status = "rerun"]
        ELSE IF s1.db_list = <<>>
        THEN [Show(s1, "Could not retrieve database list") EXCEPT !.status = "stop"]
        ELSE Render(Render(s1, "confirm_db"), "reset")

\* lines 271-297: choose the database, or offer the reset
DatabaseSection(s, ev, wh) ==
    IF ~s.database_selected
    THEN LET s1 == GetDbList(s, wh.dbs_ok)
         IN  IF s1.db_list = <<>>
             THEN [Show(s1, "Could not retrieve database list") EXCEPT !.status = "stop"]
             ELSE IF ev.type = "confirm_db"
                  THEN [s1 EXCEPT !.database_selected = TRUE,
                                  !.source_db_name = JStr(ev.arg),
                                  !.available_tables = GetTableList(JStr(ev.arg), wh.tables_ok),
                                  !.status = "rerun"]
                  ELSE Render(s1, "confirm_db")
    ELSE IF ev.type = "reset"
         THEN [ResetApp(s) EXCEPT !.status = "rerun"]
         ELSE Render(s, "reset")

\* value of the date_input: Streamlit raises when it is outside min..max
RetentionInRange(s) ==
    /\ DateLE(Today, s.data_retention_date)
    /\ DateLE(s.data_retention_date, AddDays(Today, s.initial_config.max_retention_days))

\* faulty variant of RequestSection: the else branch that stores
\* date(9999, 12, 31) left out
RequestSectionNoSentinel(s, ev) ==
    IF ~s.database_selected THEN s
    ELSE
    LET requestor == IF ev.type = "requestor" THEN ev.arg ELSE s.requestor_widget
        s1 == Render([s EXCEPT !.requestor_widget = requestor,
                               !.present = @ \cup {"share_requested_by"},
                               !.share_requested_by = requestor], "requestor")
    IN  IF ~Has(s1, "share_requested_reason")
        THEN Crash(s1, "AttributeError: share_requested_reason")
        ELSE Render([s1 EXCEPT !.share_requested_reason =
                                  IF ev.type = "reason" THEN JStr(ev.arg) ELSE @],
                    "reason")

\* lines 302-319: requestor, reason and retention date
RequestSection(s, ev) ==
    IF ~s.database_selected THEN s
    ELSE
    LET requestor == IF ev.type = "requestor" THEN ev.arg ELSE s.requestor_widget
        s1 == Render([s EXCEPT !.requestor_widget = requestor,
                               !.present = @ \cup {"share_requested_by"},
                               !.share_requested_by = requestor], "requestor")
    IN  IF ~Has(s1, "share_requested_reason")
        THEN Crash(s1, "AttributeError: share_requested_reason")
        ELSE
        LET s2 == Render([s1 EXCEPT !.share_requested_reason =
                                       IF ev.type = "reason" THEN JStr(ev.arg) ELSE @],
                         "reason")
        IN  IF s2.initial_config.max_retention_days > 0
            THEN IF ~Has(s2, "data_retention_date")
                 THEN Crash(s2, "AttributeError: data_retention_date")
                 ELSE IF ~RetentionInRange(s2)
                      THEN Crash(s2, "StreamlitAPIException: date_input value")
                      ELSE Render(s2, "retention")
            ELSE [s2 EXCEPT !.present = @ \cup {"data_retention_date"},
                            !.data_retention_date = NeverExpires]

\* options of the "Choose tables to add" multiselect
AvailableOptions(s) ==
    SelectSeq(s.available_tables, LAMBDA t : ~SeqHas(s.selected_tables, t))

\* faulty variant of AddLoop: the "if item not in selected_tables" test left out
RECURSIVE AddLoopUnchecked(_, _)
AddLoopUnchecked(r, items) ==
    IF items = <<>> THEN r
    ELSE AddLoopUnchecked([sel |-> Append(r.sel, Head(items)),
                           tt |-> DictSet(r.tt, Head(items), JObj(<<>>)),
                           newly |-> Append(r.newly, Head(items))], Tail(items))

\* the loop of the Add handler over to_select; r is [sel, tt, newly]
RECURSIVE AddLoop(_, _)
AddLoop(r, items) ==
    IF items = <<>> THEN r
    ELSE LET item == Head(items)
         IN  IF ~SeqHas(r.sel, item)
             THEN AddLoop([sel |-> Append(r.sel, item),
                           tt |-> DictSetDefault(r.tt, item, JObj(<<>>)),
                           newly |-> Append(r.newly, item)], Tail(items))
             ELSE AddLoop(r, Tail(items))

\* faulty variant of AddTables: the table being configured always becomes
\* the first newly added one
AddTablesSwitching(s, to_select) ==
    LET r == AddLoop([sel |-> s.selected_tables, tt |-> s.table_transforms, newly |-> <<>>],
                     to_select)
    IN  [s EXCEPT !.selected_tables = r.sel,
                  !.table_transforms = r.tt,
                  !.current_transform_table =
                      IF r.newly # <<>> THEN JStr(r.newly[1]) ELSE @]

\* the Add Selected Tables handler, without its st.rerun()
AddTables(s, to_select) ==
    LET r == AddLoop([sel |-> s.selected_tables, tt |-> s.table_transforms, newly |-> <<>>],
                     to_select)
    IN  [s EXCEPT !.selected_tables = r.sel,
                  !.table_transforms = r.tt,
                  !.current_transform_table =
                      IF ~Truthy(@) /\ r.newly # <<>> THEN JStr(r.newly[1]) ELSE @]

\* faulty variant of RemoveLoop: table_transforms.pop(item, None) left out
RECURSIVE RemoveLoopKeepingTransforms(_, _)
RemoveLoopKeepingTransforms(r, items) ==
    IF items = <<>> THEN r
    ELSE RemoveLoopKeepingTransforms([sel |-> SeqRemoveFirst(r.sel, Head(items)), tt |-> r.tt],
                                     Tail(items))

\* the loop of the Remove handler over to_remove; r is [sel, tt]
RECURSIVE RemoveLoop(_, _)
RemoveLoop(r, items) ==
    IF items = <<>> THEN r
    ELSE RemoveLoop([sel |-> SeqRemoveFirst(r.sel, Head(items)),
                     tt |-> DictPop(r.tt, Head(items))], Tail(items))

\* current_transform_table not in selected_tables -> first selected, or None
FixCurrentTable(s) ==
    IF IsStr(s.current_transform_table) /\ SeqHas(s.selected_tables, s.current_transform_table.s)
    THEN s
    ELSE [s EXCEPT !.current_transform_table =
                      IF s.selected_tables # <<>> THEN JStr(s.selected_tables[1]) ELSE JNull]

\* faulty variant of RemoveTables: only selected_tables is updated
RemoveTablesLeavingTransforms(s, to_remove) ==
    LET r == RemoveLoop([sel |-> s.selected_tables, tt |-> s.table_transforms], to_remove)
    IN  FixCurrentTable([s EXCEPT !.selected_tables = r.sel])

\* the Remove Selected Tables handler, without its st.rerun()
RemoveTables(s, to_remove) ==
    LET r == RemoveLoop([sel |-> s.selected_tables, tt |-> s.table_transforms], to_remove)
    IN  FixCurrentTable([s EXCEPT !.selected_tables = r.sel, !.table_transforms = r.tt])

\* lines 321-358
TablesSection(s, ev) ==
    IF ~s.database_selected THEN s
    ELSE IF ~Has(s, "available_tables") THEN Crash(s, "AttributeError: available_tables")
    ELSE IF ev.type = "add" THEN [AddTables(s, ev.arg) EXCEPT !.status = "rerun"]
    ELSE IF ev.type = "remove" THEN [RemoveTables(s, ev.arg) EXCEPT !.status = "rerun"]
    ELSE Render(Render(s, "add"), "remove")

(***************************************************************************)
(* Column metadata cache.                                                  *)
(***************************************************************************)
EmptyColumns == [all_columns |-> <<>>, date_columns |-> <<>>]
DotCount(cs) == Cardinality({i \in 1..Len(cs) : cs[i] = "."})
CacheHas(s, db, table) == <<db, table>> \in DOMAIN s.cached_table_metadata
CachePut(cache, db, table, entry) ==
    [p \in (DOMAIN cache) \cup {<<db, table>>} |->
        IF p = <<db, table>> THEN entry ELSE cache[p]]

\* faulty variant of FetchAndCacheTableColumns: the queries run on every call
FetchAndCacheTableColumnsAlways(s, db, table, lookup) ==
    IF DotCount(table) # 1 \/ lookup = "fail_all" \/ ~IsStr(db)
    THEN Show([s EXCEPT !.cached_table_metadata = CachePut(@, db, table, EmptyColumns)],
              "Error fetching column metadata")
    ELSE IF lookup = "fail_date"
         THEN Show([s EXCEPT !.cached_table_metadata =
                               CachePut(@, db, table,
                                        [EmptyColumns EXCEPT !.all_columns =
                                            WarehouseColumns(db.s, table).all_columns])],
                   "Error fetching column metadata")
         ELSE [s EXCEPT !.cached_table_metadata =
                           CachePut(@, db, table, WarehouseColumns(db.s, table))]

\* fetch_and_cache_table_columns: the entry is created empty before the two
\* queries run; lookup is "ok", "fail_all" (the first query raises) or
\* "fail_date" (the second one raises)
FetchAndCacheTableColumns(s, db, table, lookup) ==
    IF CacheHas(s, db, table) THEN s
    ELSE IF DotCount(table) # 1 \/ lookup = "fail_all" \/ ~IsStr(db)
         THEN Show([s EXCEPT !.cached_table_metadata = CachePut(@, db, table, EmptyColumns)],
                   "Error fetching column metadata")
         ELSE IF lookup = "fail_date"
              THEN Show([s EXCEPT !.cached_table_metadata =
                                    CachePut(@, db, table,
                                             [EmptyColumns EXCEPT !.all_columns =
                                                 WarehouseColumns(db.s, table).all_columns])],
                        "Error fetching column metadata")
              ELSE [s EXCEPT !.cached_table_metadata =
                                CachePut(@, db, table, WarehouseColumns(db.s, table))]

\* get_columns_cached, the value returned (after the fetch above)
CachedColumns(s, db, table) ==
    IF CacheHas(s, db, table) THEN s.cached_table_metadata[<<db, table>>] ELSE EmptyColumns

\* faulty variant of SetTransform: the transform is stored for every table
SetTransformOfAll(s, table, tf) ==
    [s EXCEPT !.table_transforms = [i \in 1..Len(@) |-> <<@[i][1], tf>>]]
SetTransform(s, table, tf) == [s EXCEPT !.table_transforms = DictSet(@, table, tf)]

(***************************************************************************)
(* Lines 396-418: the date filter of the table being configured.           *)
(***************************************************************************)
\* faulty variant of WithoutFilter: the key is kept with a null value
WithoutFilterAsNull(tf) == JObj(DictSet(tf.o, "filter", JNull))
\* line 418: table_transforms[table].pop("filter", None)
WithoutFilter(tf) == JObj(DictPop(tf.o, "filter"))

DateFilterStep(s, table, date_cols, ev) ==
    LET tf == DictGet(s.table_transforms, table)
    IN  IF ~IsDict(tf) THEN Crash(s, "AttributeError: transform is not a dict")
        ELSE
        LET current_filter == DictGetOr(tf.o, "filter", JObj(<<>>))
            enabled == IF ev.type = "toggle_filter" /\ date_cols # <<>> THEN ev.arg
                       ELSE DictHas(tf.o, "filter")
            s1 == IF date_cols # <<>> THEN Render(s, "toggle_filter") ELSE s
        IN  IF ~enabled
            THEN SetTransform(s1, table, WithoutFilter(tf))
            ELSE IF ~IsDict(current_filter)
                 THEN Crash(s1, "AttributeError: filter is not a dict")
                 ELSE
                 LET selected_date_col == DictGetOr(current_filter.o, "date_column", JNull)
                     date_col_index ==
                         IF IsStr(selected_date_col) /\ SeqHas(date_cols, selected_date_col.s)
                         THEN SeqIndex(date_cols, selected_date_col.s) ELSE 1
                     date_col_selected ==
                         IF date_cols = <<>> THEN JNull
                         ELSE IF ev.type = "pick_date_col" THEN JStr(ev.arg)
                         ELSE JStr(date_cols[date_col_index])
                     s2 == IF date_cols # <<>> THEN Render(s1, "pick_date_col") ELSE s1
                 IN  SetTransform(s2, table,
                         JObj(DictSet(tf.o, "filter",
                                      JObj(<< <<"date_column", date_col_selected>> >>))))

(***************************************************************************)
(* Lines 420-440: the masked columns of the table being configured.        *)
(***************************************************************************)
\* what "for mc in current_masking_list" iterates over; <<"raise">> when the
\* value is not iterable or iterates over something that is not a dict
MaskItems(columns) ==
    CASE columns.k = "arr" -> columns.a
      [] columns.k = "obj" -> IF columns.o = <<>> THEN <<>> ELSE <<JNull>>
      [] columns.k = "str" -> IF columns.s = <<>> THEN <<>> ELSE <<JNull>>
      [] OTHER -> <<JNull>>
\* mc["mask_column"] exists and can be a dict key
MaskItemOk(mc) ==
    /\ IsDict(mc)
    /\ DictHas(mc.o, "mask_column")
    /\ DictGet(mc.o, "mask_column").k \notin {"arr", "obj"}
\* existing_mask_tags: column -> tag, a later entry of a column overwrites
RECURSIVE ExistingMaskTags(_, _)
ExistingMaskTags(items, acc) ==
    IF items = <<>> THEN acc
    ELSE ExistingMaskTags(Tail(items),
             DictSet(acc, DictGet(Head(items).o, "mask_column"),
                     DictGetOr(Head(items).o, "masked_tag", JStr(<<>>))))
\* faulty variant of NewMaskColumns: every selected column gets the empty tag
NewMaskColumnsUntagged(selected, tags) ==
    [i \in 1..Len(selected) |->
        JObj(<< <<"mask_column", selected[i]>>, <<"masked_tag", JStr(<<>>)>> >>)]
NewMaskColumns(selected, tags) ==
    [i \in 1..Len(selected) |->
        JObj(<< <<"mask_column", selected[i]>>,
                <<"masked_tag", DictGetOr(tags, selected[i], JStr(<<>>))>> >>)]

\* faulty variant of WithoutMask: a mask with an empty column list is stored
WithoutMaskAsEmptyList(tf) ==
    JObj(DictSet(tf.o, "mask", JObj(<< <<"columns", JArr(<<>>)>> >>)))
\* line 440: table_transforms[table].pop("mask", None)
WithoutMask(tf) == JObj(DictPop(tf.o, "mask"))

MaskStep(s, table, all_cols, ev) ==
    LET tf == DictGet(s.table_transforms, table)
        mask == DictGetOr(tf.o, "mask", JObj(<<>>))
    IN  IF ~IsDict(mask) THEN Crash(s, "AttributeError: mask is not a dict")
        ELSE
        LET items == MaskItems(DictGetOr(mask.o, "columns", JArr(<<>>)))
        IN  IF \E i \in 1..Len(items) : ~MaskItemOk(items[i])
            THEN Crash(s, "TypeError: mask columns")
            ELSE
            LET existing_mask_tags == ExistingMaskTags(items, <<>>)
                pre_selected == DictKeys(existing_mask_tags)
            IN  IF \E i \in 1..Len(pre_selected) :
                      ~(IsStr(pre_selected[i]) /\ SeqHas(all_cols, pre_selected[i].s))
                THEN Crash(s, "StreamlitAPIException: multiselect default")
                ELSE
                LET selected == IF ev.type = "pick_mask"
                                THEN [i \in 1..Len(ev.arg) |-> JStr(ev.arg[i])]
                                ELSE pre_selected
                    s1 == IF all_cols # <<>> THEN Render(s, "pick_mask") ELSE s
                IN  IF selected # <<>>
                    THEN SetTransform(s1, table,
                             JObj(DictSet(tf.o, "mask",
                                  JObj(<< <<"columns",
                                           JArr(NewMaskColumns(selected, existing_mask_tags))>> >>))))
                    ELSE SetTransform(s1, table, WithoutMask(tf))

(***************************************************************************)
(* Lines 442-459: the raw JSON editor of the table being configured.       *)
(***************************************************************************)
\* faulty variant of JsonEditor: a text that does not parse empties the transform
JsonEditorClearing(s, table, ev) ==
    LET tf == DictGet(s.table_transforms, table)
    IN  IF ~Truthy(tf) THEN s
        ELSE
        LET edited == IF ev.type = "edit_json" THEN ev.arg ELSE JsonDumps(tf)
            s1 == Render(s, "edit_json")
        IN  IF JsonDecodes(edited)
            THEN SetTransform(s1, table, JsonLoads(edited))
            ELSE Show(SetTransform(s1, table, JObj(<<>>)),
                      "Invalid JSON format. Please correct it to apply changes.")

JsonEditor(s, table, ev) ==
    LET tf == DictGet(s.table_transforms, table)
    IN  IF ~Truthy(tf) THEN s
        ELSE
        LET edited == IF ev.type = "edit_json" THEN ev.arg ELSE JsonDumps(tf)
            s1 == Render(s, "edit_json")
        IN  IF JsonDecodes(edited)
            THEN SetTransform(s1, table, JsonLoads(edited))
            ELSE Show(s1, "Invalid JSON format. Please correct it to apply changes.")

\* a step is reached only if nothing before it ended the pass
MaskStepReached(s, table, all_cols, ev) ==
    IF Running(s) THEN MaskStep(s, table, all_cols, ev) ELSE s
JsonEditorReached(s, table, ev) == IF Running(s) THEN JsonEditor(s, table, ev) ELSE s

\* lines 362-459
TransformSection(s, ev, wh) ==
    IF s.selected_tables = <<>> THEN s
    ELSE IF ~Has(s, "global_filter_date") THEN Crash(s, "AttributeError: global_filter_date")
    ELSE
    LET s1 == FixCurrentTable(Render(s, "filter_date"))
    IN  IF ~Truthy(s1.current_transform_table) THEN s1
        ELSE
        LET table == IF ev.type = "pick_table" THEN ev.arg ELSE s1.current_transform_table.s
            db == IF s1.database_selected THEN s1.source_db_name ELSE JNull
            s2 == Render([s1 EXCEPT !.current_transform_table = JStr(table),
                                    !.table_transforms = DictSetDefault(@, table, JObj(<<>>))],
                         "pick_table")
            s3 == FetchAndCacheTableColumns(s2, db, table, wh.columns)
            cols == CachedColumns(s3, db, table)
        IN  JsonEditorReached(
                MaskStepReached(DateFilterStep(s3, table, cols.date_columns, ev),
                                table, cols.all_columns, ev),
                table, ev)

(***************************************************************************)
(* Lines 463-485: the export document.                                     *)
(***************************************************************************)
LowerCase == <<"a", "b", "c", "d", "e", "f", "g", "h", "i", "j", "k", "l", "m",
               "n", "o", "p", "q", "r", "s", "t", "u", "v", "w", "x", "y", "z">>
UpperCase == <<"A", "B", "C", "D", "E", "F", "G", "H", "I", "J", "K", "L", "M",
               "N", "O", "P", "Q", "R", "S", "T", "U", "V", "W", "X", "Y", "Z">>
\* str.upper()
Upper(cs) ==
    [i \in 1..Len(cs) |->
        IF \E j \in 1..26 : LowerCase[j] = cs[i]
        THEN UpperCase[CHOOSE j \in 1..26 : LowerCase[j] = cs[i]] ELSE cs[i]]
\* st.user.email
CurrentUser == <<"m", "e">>

\* faulty variant of FinalJsonOutput: tables without a transform are left out
FinalJsonOutputDroppingEmpty(s) ==
    JObj(<< <<"database_name", s.source_db_name>>,
            <<"data_retention_date", JStr(DateStr(s.data_retention_date))>>,
            <<"share_created_by", JStr(Upper(CurrentUser))>>,
            <<"share_requested_by", s.share_requested_by>>,
            <<"share_requested_reason", s.share_requested_reason>>,
            <<"filter_date", JStr(DateStr(s.global_filter_date))>>,
            <<"tables", JObj(SelectSeq(s.table_transforms,
                                       LAMBDA p : p[2] # JObj(<<>>)))>> >>)

FinalJsonOutput(s) ==
    JObj(<< <<"database_name", s.source_db_name>>,
            <<"data_retention_date", JStr(DateStr(s.data_retention_date))>>,
            <<"share_created_by", JStr(Upper(CurrentUser))>>,
            <<"share_requested_by", s.share_requested_by>>,
            <<"share_requested_reason", s.share_requested_reason>>,
            <<"filter_date", JStr(DateStr(s.global_filter_date))>>,
            <<"tables", JObj(s.table_transforms)>> >>)

ExportSection(s) ==
    IF ~s.database_selected THEN s
    ELSE Render([s EXCEPT !.final_json_output = FinalJsonOutput(s)], "download")

(***************************************************************************)
(* Lines 129-157 and 490-523: the share.                                   *)
(***************************************************************************)
\* get_data_share_name: the template with <DB> and <ENV> replaced
RECURSIVE FillTemplate(_, _, _)
FillTemplate(template, db, env) ==
    IF template = <<>> THEN <<>>
    ELSE (IF Head(template) = "<DB>" THEN db
          ELSE IF Head(template) = "<ENV>" THEN env
          ELSE <<Head(template)>>) \o FillTemplate(Tail(template), db, env)
GetDataShareName(s, env) == FillTemplate(s.initial_config.share_name_template, s.source_db_name.s, env)

\* a statement; comment holds the COMMENT text of CREATE OR REPLACE SHARE
Stmt(kind, obj) == [kind |-> kind, obj |-> obj, comment |-> <<>>]
\* CREATE OR REPLACE SHARE ... COMMENT = final_json_string
CreateShareStmt(s, share_name) ==
    [Stmt("CREATE OR REPLACE SHARE", share_name) EXCEPT
        !.comment = <<JsonDumps(s.final_json_output)>>]
Qualified(db, name) == db \o <<".">> \o name
\* SELECT CURRENT_ORGANIZATION_NAME()
Organisation == <<"O", "R", "G">>

\* faulty variant of UniqueSchemas: a list with the schema of every selected
\* table instead of a set
SchemaOfEachTable(s, schema_order) ==
    [i \in 1..Len(s.selected_tables) |-> SplitFirst(s.selected_tables[i])]

\* unique_schemas, iterated in the order the set happens to have: the
\* schemas of the selected tables, in the order of schema_order
UniqueSchemas(s, schema_order) ==
    SelectSeq(schema_order,
              LAMBDA sc : \E i \in 1..Len(s.selected_tables) : SplitFirst(s.selected_tables[i]) = sc)

\* faulty variant of ShareStatements: the account is added before the grants
ShareStatementsAccountFirst(s, share_name, schema_order) ==
    LET db == s.source_db_name.s
        schemas == UniqueSchemas(s, schema_order)
        ref == Strip(s.initial_config.reference_database)
    IN  <<CreateShareStmt(s, share_name),
          Stmt("SELECT CURRENT_ORGANIZATION_NAME", <<>>),
          Stmt("ALTER SHARE ADD ACCOUNTS", Qualified(Organisation, s.initial_config.account_name)),
          Stmt("GRANT USAGE ON DATABASE", db)>>
        \o [i \in 1..Len(schemas) |-> Stmt("GRANT USAGE ON SCHEMA", Qualified(db, schemas[i]))]
        \o [i \in 1..Len(s.selected_tables) |->
               Stmt("GRANT SELECT ON TABLE", Qualified(db, s.selected_tables[i]))]
        \o (IF ref # <<>> THEN <<Stmt("GRANT REFERENCE_USAGE ON DATABASE", ref)>> ELSE <<>>)

\* the statements create_data_share sends when none of them fails
ShareStatements(s, share_name, schema_order) ==
    LET db == s.source_db_name.s
        schemas == UniqueSchemas(s, schema_order)
        ref == Strip(s.initial_config.reference_database)
    IN  <<CreateShareStmt(s, share_name), Stmt("GRANT USAGE ON DATABASE", db)>>
        \o [i \in 1..Len(schemas) |-> Stmt("GRANT USAGE ON SCHEMA", Qualified(db, schemas[i]))]
        \o [i \in 1..Len(s.selected_tables) |->
               Stmt("GRANT SELECT ON TABLE", Qualified(db, s.selected_tables[i]))]
        \o (IF ref # <<>> THEN <<Stmt("GRANT REFERENCE_USAGE ON DATABASE", ref)>> ELSE <<>>)
        \o <<Stmt("SELECT CURRENT_ORGANIZATION_NAME", <<>>),
             Stmt("ALTER SHARE ADD ACCOUNTS",
                  Qualified(Organisation, s.initial_config.account_name))>>

\* faulty variant of CreateDataShare: each statement in a try of its own, so
\* the statements after a failed one are still sent
CreateDataShareContinuing(s, share_name, fail_at, schema_order) ==
    LET plan == ShareStatements(s, share_name, schema_order)
        failed == fail_at \in 1..Len(plan)
        log == [i \in 1..Len(plan) |-> [stmt |-> plan[i], ok |-> i # fail_at]]
    IN  Show([s EXCEPT !.sql_log = log],
             IF failed THEN "Failed to create share" ELSE "Share created successfully")

\* create_data_share: the statements run in order inside one try; the
\* fail_at-th raises (0: none does).  sql_log holds the statements sent,
\* each with whether it succeeded.
CreateDataShare(s, share_name, fail_at, schema_order) ==
    LET plan == ShareStatements(s, share_name, schema_order)
        failed == fail_at \in 1..Len(plan)
        sent == IF failed THEN fail_at ELSE Len(plan)
        log == [i \in 1..sent |-> [stmt |-> plan[i], ok |-> i # fail_at]]
    IN  Show([s EXCEPT !.sql_log = log],
             IF failed THEN "Failed to create share" ELSE "Share created successfully")

\* faulty variant of ShareSection: the "elif not data_share_certify" branch left out
ShareSectionUncertified(s, ev, wh) ==
    IF ~(Truthy(s.source_db_name) /\ s.selected_tables # <<>>) THEN s
    ELSE
    LET certify == IF ev.type = "certify" THEN ev.arg ELSE s.certify_widget
        s1 == Render([s EXCEPT !.certify_widget = certify], "certify")
    IN  IF IsNone(s1.share_requested_by) THEN Show(s1, "Please add the requestor name.")
        ELSE IF ~IsStr(s1.share_requested_reason)
             THEN Crash(s1, "AttributeError: share_requested_reason.strip")
        ELSE IF Strip(s1.share_requested_reason.s) = <<>>
             THEN Show(s1, "Please add the data share request reason.")
        ELSE
        LET data_share_name == GetDataShareName(s1, s1.initial_config.environments[1])
            s2 == IF data_share_name # <<>> THEN Render(s1, "create_share") ELSE s1
        IN  IF ev.type = "create_share"
            THEN CreateDataShare(s2, data_share_name, wh.fail_at, wh.schema_order)
            ELSE s2

\* lines 490-523
ShareSection(s, ev, wh) ==
    IF ~(Truthy(s.source_db_name) /\ s.selected_tables # <<>>) THEN s
    ELSE
    LET certify == IF ev.type = "certify" THEN ev.arg ELSE s.certify_widget
        s1 == Render([s EXCEPT !.certify_widget = certify], "certify")
    IN  IF IsNone(s1.share_requested_by) THEN Show(s1, "Please add the requestor name.")
        ELSE IF ~IsStr(s1.share_requested_reason)
             THEN Crash(s1, "AttributeError: share_requested_reason.strip")
        ELSE IF Strip(s1.share_requested_reason.s) = <<>>
             THEN Show(s1, "Please add the data share request reason.")
        ELSE IF ~certify
             THEN Show(s1, "Please certify PI verification before creating data share.")
        ELSE
        LET selected_environment == s1.initial_config.environments[1]
            data_share_name == GetDataShareName(s1, selected_environment)
            s2 == IF data_share_name # <<>> THEN Render(s1, "create_share") ELSE s1
        IN  IF ev.type = "create_share"
            THEN CreateDataShare(s2, data_share_name, wh.fail_at, wh.schema_order)
            ELSE s2

(***************************************************************************)
(* One pass, and one interaction.                                          *)
(***************************************************************************)
\* what a new pass starts from: nothing shown yet
BeginPass(s) ==
    [s EXCEPT !.status = "run", !.messages = {}, !.rendered = {},
              !.final_json_output = JNull, !.sql_log = <<>>]

\* faulty variant of Callbacks: the filter date is also copied into the
\* filter of every table that has one
CallbacksCopyingDate(s, ev) ==
    IF ev.type = "retention"
    THEN [s EXCEPT !.present = @ \cup {"data_retention_date"}, !.data_retention_date = ev.arg]
    ELSE IF ev.type = "filter_date"
    THEN [s EXCEPT !.present = @ \cup {"global_filter_date"},
                   !.global_filter_date = ev.arg,
                   !.table_transforms =
                       [i \in 1..Len(@) |->
                           IF IsDict(@[i][2]) /\ DictHas(@[i][2].o, "filter")
                              /\ IsDict(DictGet(@[i][2].o, "filter"))
                           THEN <<@[i][1],
                                  JObj(DictSet(@[i][2].o, "filter",
                                       JObj(DictSet(DictGet(@[i][2].o, "filter").o, "date",
                                                    JStr(DateStr(ev.arg))))))>>
                           ELSE @[i]]]
    ELSE s

\* the on_change callbacks of the two date inputs run before the script
Callbacks(s, ev) ==
    IF ev.type = "retention"
    THEN [s EXCEPT !.present = @ \cup {"data_retention_date"}, !.data_retention_date = ev.arg]
    ELSE IF ev.type = "filter_date"
    THEN [s EXCEPT !.present = @ \cup {"global_filter_date"}, !.global_filter_date = ev.arg]
    ELSE s

\* a pass that ran to its end drops the state of the widgets it did not render
EndPass(s) ==
    IF s.status # "run" THEN s
    ELSE [s EXCEPT !.requestor_widget = IF "requestor" \in s.rendered THEN @ ELSE JNull,
                   !.certify_widget = IF "certify" \in s.rendered THEN @ ELSE FALSE]

\* a section is reached only if nothing before it ended the pass
UploadSectionReached(s, ev, wh) == IF Running(s) THEN UploadSection(s, ev, wh) ELSE s
DatabaseSectionReached(s, ev, wh) == IF Running(s) THEN DatabaseSection(s, ev, wh) ELSE s
RequestSectionReached(s, ev) == IF Running(s) THEN RequestSection(s, ev) ELSE s
TablesSectionReached(s, ev) == IF Running(s) THEN TablesSection(s, ev) ELSE s
TransformSectionReached(s, ev, wh) == IF Running(s) THEN TransformSection(s, ev, wh) ELSE s
ExportSectionReached(s) == IF Running(s) THEN ExportSection(s) ELSE s
ShareSectionReached(s, ev, wh) == IF Running(s) THEN ShareSection(s, ev, wh) ELSE s

\* the script from its first line to its last
RunScript(s0, ev, wh) ==
    EndPass(
     ShareSectionReached(
      ExportSectionReached(
       TransformSectionReached(
        TablesSectionReached(
         RequestSectionReached(
          DatabaseSectionReached(
           UploadSectionReached(
            Header(GetInitialConfig(SetDefaults(Callbacks(BeginPass(s0), ev)), wh.toml)),
            ev, wh),
           ev, wh),
          ev),
         ev),
        ev, wh)),
      ev, wh))

NoEvent == [type |-> "none", arg |-> JNull]
\* the pass the interaction triggers and, after st.rerun(), the pass that follows
AfterRerun(r, wh) == IF r.status = "rerun" THEN RunScript(r, NoEvent, wh) ELSE r
Handle(s, ev, wh) == AfterRerun(RunScript(s, ev, wh), wh)

(***************************************************************************)
(* State: st.session_state key by key, the two widget states, what the     *)
(* last pass produced, and the file loaded by the last interaction.        *)
(***************************************************************************)
VARIABLES
    present,
    initial_config,
    db_list,
    database_selected,
    source_db_name,
    available_tables,
    selected_tables,
    table_transforms,
    current_transform_table,
    global_filter_date,
    data_retention_date,
    cached_table_metadata,
    share_requested_by,
    share_requested_reason,
    requestor_widget,
    certify_widget,
    status,
    messages,
    rendered,
    final_json_output,
    sql_log,
    loaded_file

vars == <<present, initial_config, db_list, database_selected, source_db_name, available_tables, selected_tables, table_transforms, current_transform_table, global_filter_date, data_retention_date, cached_table_metadata, share_requested_by, share_requested_reason, requestor_widget, certify_widget, status, messages, rendered, final_json_output, sql_log, loaded_file>>

\* the session as one record
Cur ==
    [present |-> present,
     initial_config |-> initial_config,
     db_list |-> db_list,
     database_selected |-> database_selected,
     source_db_name |-> source_db_name,
     available_tables |-> available_tables,
     selected_tables |-> selected_tables,
     table_transforms |-> table_transforms,
     current_transform_table |-> current_transform_table,
     global_filter_date |-> global_filter_date,
     data_retention_date |-> data_retention_date,
     cached_table_metadata |-> cached_table_metadata,
     share_requested_by |-> share_requested_by,
     share_requested_reason |-> share_requested_reason,
     requestor_widget |-> requestor_widget,
     certify_widget |-> certify_widget,
     status |-> status,
     messages |-> messages,
     rendered |-> rendered,
     final_json_output |-> final_json_output,
     sql_log |-> sql_log]

StateIs(r) ==
    /\ present = r.present
    /\ initial_config = r.initial_config
    /\ db_list = r.db_list
    /\ database_selected = r.database_selected
    /\ source_db_name = r.source_db_name
    /\ available_tables = r.available_tables
    /\ selected_tables = r.selected_tables
    /\ table_transforms = r.table_transforms
    /\ current_transform_table = r.current_transform_table
    /\ global_filter_date = r.global_filter_date
    /\ data_retention_date = r.data_retention_date
    /\ cached_table_metadata = r.cached_table_metadata
    /\ share_requested_by = r.share_requested_by
    /\ share_requested_reason = r.share_requested_reason
    /\ requestor_widget = r.requestor_widget
    /\ certify_widget = r.certify_widget
    /\ status = r.status
    /\ messages = r.messages
    /\ rendered = r.rendered
    /\ final_json_output = r.final_json_output
    /\ sql_log = r.sql_log

Commit(r) ==
    /\ present' = r.present
    /\ initial_config' = r.initial_config
    /\ db_list' = r.db_list
    /\ database_selected' = r.database_selected
    /\ source_db_name' = r.source_db_name
    /\ available_tables' = r.available_tables
    /\ selected_tables' = r.selected_tables
    /\ table_transforms' = r.table_transforms
    /\ current_transform_table' = r.current_transform_table
    /\ global_filter_date' = r.global_filter_date
    /\ data_retention_date' = r.data_retention_date
    /\ cached_table_metadata' = r.cached_table_metadata
    /\ share_requested_by' = r.share_requested_by
    /\ share_requested_reason' = r.share_requested_reason
    /\ requestor_widget' = r.requestor_widget
    /\ certify_widget' = r.certify_widget
    /\ status' = r.status
    /\ messages' = r.messages
    /\ rendered' = r.rendered
    /\ final_json_output' = r.final_json_output
    /\ sql_log' = r.sql_log

(***************************************************************************)
(* Inputs.                                                                 *)
(***************************************************************************)
\* longest selection made in one multiselect before its button is pressed
MaxPick == 2

\* sequences without repetition over the elements of q, of length 1..n
RECURSIVE Picks(_, _)
Picks(S, n) ==
    IF n = 0 THEN {<<>>}
    ELSE LET shorter == Picks(S, n - 1)
         IN  shorter \cup {Append(q, e) : q \in shorter, e \in S}
PicksOf(q, n) == {p \in Picks(SeqSet(q), n) : NoDup(p)}

ConfigFiles == {AppSettings(0, <<>>), AppSettings(MaxRetentionDays, <<"R", " ">>), BrokenSettings}
Reasons == {<<>>, <<" ">>, <<"o", "k">>}
Requestors == {JNull} \cup {JStr(WarehouseUsers[i]) : i \in 1..Len(WarehouseUsers)}
FilterDates == {Today, Earlier}
RetentionDates(max_days) == {AddDays(Today, i) : i \in 0..max_days}
SchemaOrders == {<<<<"P">>, <<"R">>, <<"S">>>>, <<<<"P">>, <<"S">>, <<"R">>>>}
ColumnLookups == {"ok"}

\* how the warehouse answers when nothing fails
Healthy ==
    [toml |-> BrokenSettings, dbs_ok |-> TRUE, tables_ok |-> TRUE, columns |-> "ok",
     fail_at |-> 0, schema_order |-> <<<<"P">>, <<"R">>, <<"S">>>>]

\* documents offered to the uploader
Doc(pairs) == JsonText(JObj(pairs))
TransformPO == JObj(<< <<"filter", JObj(<< <<"date_column", JStr(COL_D)>> >>)>>,
                       <<"mask", JObj(<< <<"columns",
                            JArr(<<JObj(<< <<"mask_column", JStr(COL_E)>>,
                                           <<"masked_tag", JStr(TAG)>> >>)>>)>> >>)>> >>)
GoodDoc ==
    Doc(<< <<"database_name", JStr(SALES)>>,
           <<"data_retention_date", JStr(DateStr(AddDays(Today, 1)))>>,
           <<"share_created_by", JStr(<<"M", "E">>)>>,
           <<"share_requested_by", JStr(USER_U)>>,
           <<"share_requested_reason", JStr(<<"o", "k">>)>>,
           <<"filter_date", JStr(DateStr(Earlier))>>,
           <<"tables", JObj(<< <<PO, TransformPO>>, <<PC, JObj(<<>>)>> >>)>> >>)
MinimalDoc ==
    Doc(<< <<"database_name", JStr(HR)>>,
           <<"tables", JObj(<< <<ST, JObj(<<>>)>> >>)>> >>)
NoFilterDateDoc ==
    Doc(<< <<"database_name", JStr(HR)>>,
           <<"data_retention_date", JStr(DateStr(Today))>>,
           <<"tables", JObj(<< <<ST, JObj(<<>>)>>, <<ST, JObj(<<>>)>> >>)>> >>)
LateRetentionDoc ==
    Doc(<< <<"database_name", JStr(SALES)>>,
           <<"data_retention_date", JStr(<<"2", "0", "2", "5", "-", "1", "-", "1">>)>>,
           <<"tables", JObj(<<>>)>> >>)
BadFilterDateDoc ==
    Doc(<< <<"database_name", JStr(SALES)>>,
           <<"data_retention_date", JStr(DateStr(Today))>>,
           <<"filter_date", JStr(<<"0", "1", "/", "0", "3", "/", "2", "0", "2", "4">>)>>,
           <<"tables", JObj(<< <<PC, JObj(<<>>)>> >>)>> >>)
TablesListDoc ==
    Doc(<< <<"database_name", JStr(SALES)>>,
           <<"data_retention_date", JStr(DateStr(Today))>>,
           <<"tables", JArr(<<>>)>> >>)
NoTablesDoc == Doc(<< <<"database_name", JStr(SALES)>> >>)
NoDatabaseDoc == Doc(<< <<"tables", JObj(<<>>)>> >>)
UploadedFiles ==
    {NotJson, NoTablesDoc, NoDatabaseDoc, TablesListDoc, MinimalDoc, BadFilterDateDoc,
     LateRetentionDoc, NoFilterDateDoc, GoodDoc}

\* texts typed into the raw JSON editor of a table whose transform is tf:
\* garbage, a JSON array, and tf with the tag of its first masked column set
WithTag(tf) ==
    IF IsDict(tf) /\ DictHas(tf.o, "mask")
    THEN LET cols == DictGet(DictGet(tf.o, "mask").o, "columns").a
         IN  JObj(DictSet(tf.o, "mask",
                 JObj(<< <<"columns",
                          JArr([cols EXCEPT ![1] = JObj(DictSet(@.o, "masked_tag", JStr(TAG)))])>> >>)))
    ELSE tf
EditedTexts(tf) == {NotJson, JsonText(JArr(<<>>)), JsonText(WithTag(tf))}

(***************************************************************************)
(* Initial state: the first pass of a new session.                         *)
(***************************************************************************)
\* loaded_file is the file that the last interaction loaded, if
\* process_uploaded_config got as far as reset_app with it; else NotLoaded
NotLoaded == [text |-> "none"]
InitWith(tomls, answers) ==
    \E toml \in tomls, dbs_ok \in answers :
        /\ StateIs(RunScript(BlankSession, NoEvent,
                             [Healthy EXCEPT !.toml = toml, !.dbs_ok = dbs_ok]))
        /\ loaded_file = NotLoaded
Init == InitWith(ConfigFiles, BOOLEAN)
\* sessions whose config.toml sets a retention ceiling and whose database list arrives
InitConfigured == InitWith({AppSettings(MaxRetentionDays, <<"R", " ">>)}, {TRUE})

(***************************************************************************)
(* Actions: one user interaction each.  A widget can be used only if the   *)
(* last pass rendered it.                                                  *)
(***************************************************************************)
\* process_uploaded_config reaches reset_app with this file
PassesKeyCheck(file) ==
    /\ JsonDecodes(file)
    /\ IsDict(JsonLoads(file))
    /\ InDoc(JsonLoads(file), "database_name") = "yes"
    /\ InDoc(JsonLoads(file), "tables") = "yes"

Do(kind, arg, wh) ==
    /\ Commit(Handle(Cur, [type |-> kind, arg |-> arg], wh))
    /\ loaded_file' = IF kind = "load" /\ PassesKeyCheck(arg) THEN arg ELSE NotLoaded

CurrentTransform == DictGet(table_transforms, current_transform_table.s)
CurrentColumns == CachedColumns(Cur, source_db_name, current_transform_table.s)

Rerender == Do("none", JNull, Healthy)

ClickLoadConfiguration ==
    /\ "load" \in rendered
    /\ \E file \in UploadedFiles, lookup \in ColumnLookups :
           Do("load", file, [Healthy EXCEPT !.columns = lookup])

ClickConfirmDatabase ==
    /\ "confirm_db" \in rendered
    /\ \E db \in SeqSet(db_list), ok \in BOOLEAN :
           Do("confirm_db", db, [Healthy EXCEPT !.tables_ok = ok])

ClickReset ==
    /\ "reset" \in rendered
    /\ \E dbs_ok \in BOOLEAN : Do("reset", JNull, [Healthy EXCEPT !.dbs_ok = dbs_ok])

SelectRequestor ==
    /\ "requestor" \in rendered
    /\ \E u \in Requestors : Do("requestor", u, Healthy)

EditReason ==
    /\ "reason" \in rendered
    /\ \E r \in Reasons : Do("reason", r, Healthy)

PickRetentionDate ==
    /\ "retention" \in rendered
    /\ \E d \in RetentionDates(initial_config.max_retention_days) : Do("retention", d, Healthy)

ClickAddTables ==
    /\ "add" \in rendered
    /\ \E to_select \in PicksOf(AvailableOptions(Cur), MaxPick) \ {<<>>}, lookup \in ColumnLookups :
           Do("add", to_select, [Healthy EXCEPT !.columns = lookup])

ClickRemoveTables ==
    /\ "remove" \in rendered
    /\ \E to_remove \in PicksOf(selected_tables, MaxPick) \ {<<>>}, lookup \in ColumnLookups :
           Do("remove", to_remove, [Healthy EXCEPT !.columns = lookup])

PickGlobalFilterDate ==
    /\ "filter_date" \in rendered
    /\ \E d \in FilterDates : Do("filter_date", d, Healthy)

PickTransformTable ==
    /\ "pick_table" \in rendered
    /\ \E t \in SeqSet(selected_tables), lookup \in ColumnLookups :
           Do("pick_table", t, [Healthy EXCEPT !.columns = lookup])

ToggleDateFilter ==
    /\ "toggle_filter" \in rendered
    /\ \E b \in BOOLEAN : Do("toggle_filter", b, Healthy)

PickDateColumn ==
    /\ "pick_date_col" \in rendered
    /\ \E c \in SeqSet(CurrentColumns.date_columns) : Do("pick_date_col", c, Healthy)

PickMaskColumns ==
    /\ "pick_mask" \in rendered
    /\ \E cols \in PicksOf(CurrentColumns.all_columns, Len(CurrentColumns.all_columns)) :
           Do("pick_mask", cols, Healthy)

EditTransformJson ==
    /\ "edit_json" \in rendered
    /\ \E text \in EditedTexts(CurrentTransform) : Do("edit_json", text, Healthy)

ToggleCertify ==
    /\ "certify" \in rendered
    /\ \E b \in BOOLEAN : Do("certify", b, Healthy)

ClickCreateShare ==
    /\ "create_share" \in rendered
    /\ \E order \in SchemaOrders :
       \E k \in 0..Len(ShareStatements(Cur, <<>>, order)) :
           Do("create_share", JNull, [Healthy EXCEPT !.fail_at = k, !.schema_order = order])

\* interactions with the table selection and the transforms
NextTransforms ==
    \/ Rerender
    \/ ClickLoadConfiguration
    \/ ClickConfirmDatabase
    \/ ClickReset
    \/ ClickAddTables
    \/ ClickRemoveTables
    \/ PickTransformTable
    \/ ToggleDateFilter
    \/ PickDateColumn
    \/ PickMaskColumns
    \/ EditTransformJson

\* interactions with the request fields, the dates and the share
NextShare ==
    \/ Rerender
    \/ ClickLoadConfiguration
    \/ ClickConfirmDatabase
    \/ ClickReset
    \/ SelectRequestor
    \/ EditReason
    \/ PickRetentionDate
    \/ PickGlobalFilterDate
    \/ ClickAddTables
    \/ ClickRemoveTables
    \/ ToggleCertify
    \/ ClickCreateShare

Spec == InitConfigured /\ [][NextTransforms]_vars
SpecShare == Init /\ [][NextShare]_vars

(***************************************************************************)
(* Properties.                                                             *)
(***************************************************************************)
ConfigurationKeys ==
    {"source_db_name", "database_selected", "selected_tables", "table_transforms",
     "current_transform_table", "global_filter_date", "data_retention_date",
     "share_requested_by", "share_requested_reason"}
\* the configuration part of a session: which keys exist, and their values
ConfigurationOf(s) ==
    [keys |-> s.present \cap ConfigurationKeys,
     source_db_name |-> s.source_db_name,
     database_selected |-> s.database_selected,
     selected_tables |-> s.selected_tables,
     table_transforms |-> s.table_transforms,
     current_transform_table |-> s.current_transform_table,
     global_filter_date |-> s.global_filter_date,
     data_retention_date |-> s.data_retention_date,
     share_requested_by |-> s.share_requested_by,
     share_requested_reason |-> s.share_requested_reason]
Count(q, e) == Cardinality({i \in 1..Len(q) : q[i] = e})

\* C1: a load that fails leaves the configuration as it was: for every
\* uploaded file on which process_uploaded_config ends with an error instead
\* of st.rerun(), the configuration after the call equals the one before it.
C1_FailedLoadKeepsConfiguration ==
    "load" \in rendered =>
        \A file \in UploadedFiles :
            LET before == SetDefaults(BeginPass(Cur))
                after == ProcessUploadedConfig(before, file, TRUE)
            IN  after.status # "rerun" => ConfigurationOf(after) = ConfigurationOf(before)

\* a new session with the same config.toml, after its first pass
FreshSession == RunScript(BlankSession, NoEvent, [Healthy EXCEPT !.toml = initial_config])
\* the export document without its share_created_by
WithoutCreator(doc) == IF IsDict(doc) THEN JObj(DictPop(doc.o, "share_created_by")) ELSE doc

\* C2: round trip.  For every reachable configuration with a database
\* selected, loading its export document in a new session and letting the
\* pass after the load complete gives the same database, tables, transforms,
\* dates, requestor and reason, and the same export document except for
\* share_created_by.
C2_ExportLoadRoundTrip ==
    (status = "run" /\ "download" \in rendered) =>
        LET loaded == Handle(FreshSession,
                             [type |-> "load", arg |-> JsonDumps(final_json_output)], Healthy)
        IN  /\ loaded.status = "run"
            /\ loaded.source_db_name = source_db_name
            /\ loaded.selected_tables = selected_tables
            /\ loaded.table_transforms = table_transforms
            /\ loaded.data_retention_date = data_retention_date
            /\ loaded.global_filter_date = global_filter_date
            /\ loaded.share_requested_by = share_requested_by
            /\ loaded.share_requested_reason = share_requested_reason
            /\ WithoutCreator(loaded.final_json_output) = WithoutCreator(final_json_output)

\* C3: in every reachable state the keys of table_transforms are exactly the
\* names in selected_tables.
C3_TransformKeysAreSelectedTables ==
    SeqSet(DictKeys(table_transforms)) = SeqSet(selected_tables)
\* a table was configured and then removed, while another one stays selected
\* with a transform of its own
C3_RemovedAfterConfiguring ==
    /\ selected_tables = <<PO>>
    /\ CacheHas(Cur, source_db_name, PC)
    /\ DictGet(table_transforms, PO) # JObj(<<>>)

\* C4: selected_tables never holds a name twice, and adding a table a second
\* time changes neither the list nor the transforms: the table stays in the
\* list exactly once.
C4_SelectedTablesUnique ==
    /\ NoDup(selected_tables)
    /\ \A t \in SeqSet(available_tables) \cup SeqSet(selected_tables) :
           LET once == AddTables(Cur, <<t>>)
               twice == AddTables(once, <<t>>)
           IN  /\ Count(once.selected_tables, t) = 1
               /\ twice.selected_tables = once.selected_tables
               /\ twice.table_transforms = once.table_transforms
\* the second table was added to a list whose first table carries a transform
C4_AddedWithTransform ==
    /\ selected_tables = <<PC, PO>>
    /\ DictGet(table_transforms, PC) # JObj(<<>>)

\* C5: statements are sent to the warehouse only when the database is set,
\* at least one table is selected, the requestor is not null, the reason is
\* not blank after trimming and the PI certification is ticked.
C5_ShareOnlyWhenComplete ==
    sql_log # <<>> =>
        /\ Truthy(source_db_name)
        /\ selected_tables # <<>>
        /\ ~IsNone(share_requested_by)
        /\ IsStr(share_requested_reason)
        /\ Strip(share_requested_reason.s) # <<>>
        /\ certify_widget
\* a share was created for a certified request
C5_ShareCreated ==
    /\ sql_log # <<>>
    /\ certify_widget
    /\ "Share created successfully" \in messages

ShareFailed(log) == \E i \in 1..Len(log) : ~log[i].ok
Statements(log) == [i \in 1..Len(log) |-> log[i].stmt]
\* C6: when the k-th statement of create_data_share fails, the k-1 before it
\* were sent and succeeded and nothing else was sent (no statement after it,
\* no rollback), the failure is reported, no success is, and the
\* configuration is what it was before the click.
C6_ShareFailureIsPartial ==
    [][ShareFailed(sql_log') =>
          /\ \A i \in 1..Len(sql_log') : sql_log'[i].ok <=> i < Len(sql_log')
          /\ \E order \in SchemaOrders :
                 Statements(sql_log') =
                     SubSeq(ShareStatements(Cur, GetDataShareName(Cur, DEV), order),
                            1, Len(sql_log'))
          /\ "Failed to create share" \in messages'
          /\ "Share created successfully" \notin messages'
          /\ ConfigurationOf(Cur)' = ConfigurationOf(Cur)]_vars
\* a statement in the middle of the sequence failed
C6_FailedMidway ==
    /\ ShareFailed(sql_log)
    /\ Len(sql_log) >= 3
    /\ \A i \in 1..Len(sql_log) : sql_log[i].stmt.kind # "SELECT CURRENT_ORGANIZATION_NAME"

StatementRank(kind) ==
    CASE kind = "CREATE OR REPLACE SHARE" -> 1
      [] kind = "GRANT USAGE ON DATABASE" -> 2
      [] kind = "GRANT USAGE ON SCHEMA" -> 3
      [] kind = "GRANT SELECT ON TABLE" -> 4
      [] kind = "GRANT REFERENCE_USAGE ON DATABASE" -> 5
      [] kind = "SELECT CURRENT_ORGANIZATION_NAME" -> 6
      [] kind = "ALTER SHARE ADD ACCOUNTS" -> 7
AccountAdded(log) ==
    \E i \in 1..Len(log) : log[i].stmt.kind = "ALTER SHARE ADD ACCOUNTS" /\ log[i].ok
\* C7: the statements go out in the order create share, database grant,
\* schema grants, table grants, optional reference-usage grant, add account;
\* the account is added only after every grant before it succeeded (one per
\* schema and one per table of the selection among them), and success is
\* reported only when the account was added.
C7_ShareStatementOrder ==
    /\ sql_log # <<>> => sql_log[1].stmt.kind = "CREATE OR REPLACE SHARE"
    /\ \A i, j \in 1..Len(sql_log) :
           i < j => /\ StatementRank(sql_log[i].stmt.kind) <= StatementRank(sql_log[j].stmt.kind)
                    /\ sql_log[i].stmt # sql_log[j].stmt
    /\ \A i \in 1..Len(sql_log) :
           sql_log[i].stmt.kind = "ALTER SHARE ADD ACCOUNTS" =>
               /\ \A h \in 1..(i - 1) : sql_log[h].ok
               /\ \E h \in 1..(i - 1) : sql_log[h].stmt.kind = "GRANT USAGE ON DATABASE"
               /\ \A k \in 1..Len(selected_tables) :
                      /\ \E h \in 1..(i - 1) :
                             sql_log[h].stmt = Stmt("GRANT SELECT ON TABLE",
                                                    Qualified(source_db_name.s, selected_tables[k]))
                      /\ \E h \in 1..(i - 1) :
                             sql_log[h].stmt = Stmt("GRANT USAGE ON SCHEMA",
                                                    Qualified(source_db_name.s,
                                                              SplitFirst(selected_tables[k])))
               /\ Strip(initial_config.reference_database) # <<>> =>
                      \E h \in 1..(i - 1) : sql_log[h].stmt.kind = "GRANT REFERENCE_USAGE ON DATABASE"
    /\ "Share created successfully" \in messages => AccountAdded(sql_log)
\* a share over two schemas and a reference database was created
C7_FullSequenceSent ==
    /\ AccountAdded(sql_log)
    /\ Len(sql_log) = 9
    /\ "Share created successfully" \in messages

EditRejected == "Invalid JSON format. Please correct it to apply changes."
\* C8: a raw edit whose text is not JSON is rejected: the pass it triggers
\* leaves the transform of the edited table and of every other table as they
\* were, and the editor (reached whenever the stored transform is an object)
\* shows its error.
C8_MalformedEditRejected ==
    "edit_json" \in rendered =>
        LET after == Handle(Cur, [type |-> "edit_json", arg |-> NotJson], Healthy)
        IN  /\ after.table_transforms = table_transforms
            /\ IsDict(CurrentTransform) => EditRejected \in after.messages
\* text that is not JSON was typed for a table whose transform is
\* {"filter": {"date_column": "D"}}, next to another selected table
C8_RejectedOnFilteredTable ==
    /\ EditRejected \in messages
    /\ Len(selected_tables) = 2
    /\ CurrentTransform = JObj(<< <<"filter", JObj(<< <<"date_column", JStr(COL_D)>> >>)>> >>)

\* C9: every value stored in table_transforms is an object, in every
\* reachable state: a raw edit that is JSON but not an object is not stored.
C9_TransformsAreObjects ==
    \A i \in 1..Len(table_transforms) : IsDict(table_transforms[i][2])

\* C10: with max_retention_days > 0 and a database selected,
\* data_retention_date is within [today, today + max_retention_days] in every
\* reachable state.
C10_RetentionDateInRange ==
    (initial_config.max_retention_days > 0 /\ database_selected) => RetentionInRange(Cur)

SentinelText == JStr(<<"9", "9", "9", "9", "-", "1", "2", "-", "3", "1">>)
ExportedRetention(doc) == DictGet(doc.o, "data_retention_date")
\* C11: with max_retention_days = 0, the export document of every pass that
\* produces one, and the comment of every share statement sent, carries
\* "9999-12-31" as data_retention_date.
C11_SentinelWhenNoCeiling ==
    (initial_config.ok /\ initial_config.max_retention_days = 0) =>
        /\ IsDict(final_json_output) => ExportedRetention(final_json_output) = SentinelText
        /\ \A i \in 1..Len(sql_log) :
               \A j \in 1..Len(sql_log[i].stmt.comment) :
                   ExportedRetention(JsonLoads(sql_log[i].stmt.comment[j])) = SentinelText
\* a document with another retention date was loaded into a session without
\* a ceiling, and the export was produced
C11_LoadedWithoutCeiling ==
    /\ initial_config.ok
    /\ initial_config.max_retention_days = 0
    /\ loaded_file = GoodDoc
    /\ IsDict(final_json_output)

\* documents without database_name, without tables, and without both
MissingKeyDocs == {NoTablesDoc, NoDatabaseDoc, Doc(<<>>)}
\* C12: loading a document that lacks database_name or tables reports
\* "Invalid JSON format" and changes nothing: process_uploaded_config returns
\* the session it was given, whatever the warehouse would have answered, and
\* the pass of the load ends in the session a pass without interaction ends
\* in, plus the error.
C12_MissingKeyChangesNothing ==
    "load" \in rendered =>
        \A file \in MissingKeyDocs, ok \in BOOLEAN :
            LET before == SetDefaults(BeginPass(Cur))
                after == ProcessUploadedConfig(before, file, ok)
                wh == [Healthy EXCEPT !.tables_ok = ok]
                plain == Handle(Cur, NoEvent, wh)
            IN  /\ "Invalid JSON format" \in after.messages
                /\ [after EXCEPT !.messages = before.messages] = before
                /\ Handle(Cur, [type |-> "load", arg |-> file], wh)
                       = [plain EXCEPT !.messages = @ \cup {"Invalid JSON format"}]
\* such a document was loaded into a session with tables selected and column
\* metadata cached
C12_RejectedInConfiguredSession ==
    /\ "Invalid JSON format" \in messages
    /\ selected_tables # <<>>
    /\ available_tables # <<>>
    /\ DOMAIN cached_table_metadata # {}

\* C13: a document with database_name and an object-valued tables and no
\* other key loads: no error is reported, the pass after the load completes,
\* and the session holds the document's database and tables.
C13_MinimalDocumentLoads ==
    loaded_file = MinimalDoc =>
        /\ "An error occurred while processing the file" \notin messages
        /\ status = "run"
        /\ source_db_name = JStr(HR)
        /\ selected_tables = <<ST>>

\* the last interaction was a load that reached st.rerun()
LoadSucceeded ==
    /\ loaded_file # NotLoaded
    /\ "An error occurred while processing the file" \notin messages
\* C14: after a successful load global_filter_date is the document's
\* filter_date, or the current date when the document has none, whatever the
\* session held before.
C14_FilterDateAfterLoad ==
    LoadSucceeded =>
        LET filter_str == DictGetOr(JsonLoads(loaded_file).o, "filter_date", JNull)
        IN  global_filter_date = IF IsStr(filter_str) THEN Strptime(filter_str.s) ELSE Today
\* a document without filter_date was loaded and the pass after it completed
C14_LoadedWithoutFilterDate ==
    /\ LoadSucceeded
    /\ loaded_file = NoFilterDateDoc
    /\ status = "run"
    /\ global_filter_date = Today

\* the entries of tf.mask.columns, when tf has that shape
MaskEntries(tf) ==
    IF IsDict(tf) /\ DictHas(tf.o, "mask") /\ IsDict(DictGet(tf.o, "mask"))
       /\ DictHas(DictGet(tf.o, "mask").o, "columns")
       /\ IsList(DictGet(DictGet(tf.o, "mask").o, "columns"))
    THEN DictGet(DictGet(tf.o, "mask").o, "columns").a
    ELSE <<>>
MaskedColumns(tf) ==
    LET entries == SelectSeq(MaskEntries(tf), MaskItemOk)
    IN  [i \in 1..Len(entries) |-> DictGet(entries[i].o, "mask_column")]
MaskColumnsDistinct(transforms) ==
    \A i \in 1..Len(transforms) : NoDup(MaskedColumns(transforms[i][2]))
MaskEntry(column, tag) ==
    JObj(<< <<"mask_column", JStr(column)>>, <<"masked_tag", JStr(tag)>> >>)
\* {"mask": {"columns": [{E, ""}, {E, "TG"}]}}: column E masked twice
MaskedTwiceText ==
    JsonText(JObj(<< <<"mask", JObj(<< <<"columns",
                 JArr(<<MaskEntry(COL_E, <<>>), MaskEntry(COL_E, TAG)>>)>> >>)>> >>))
\* C15: the mask_column values of every table's mask.columns are pairwise
\* distinct in every reachable state, also in the state a raw JSON edit
\* leads to.
C15_MaskColumnsUnique ==
    /\ MaskColumnsDistinct(table_transforms)
    /\ "edit_json" \in rendered =>
           \A text \in EditedTexts(CurrentTransform) \cup {MaskedTwiceText} :
               MaskColumnsDistinct(
                   Handle(Cur, [type |-> "edit_json", arg |-> text], Healthy).table_transforms)

\* the table the last pass configured has no filter, or one whose
\* date_column is among the date columns cached for it
FilterOfCurrentKnown(s) ==
    (s.status = "run" /\ "pick_table" \in s.rendered) =>
        LET table == s.current_transform_table.s
            tf == DictGet(s.table_transforms, table)
            filter == DictGetOr(tf.o, "filter", JNull)
        IN  (IsDict(tf) /\ DictHas(tf.o, "filter")) =>
                /\ IsDict(filter)
                /\ IsStr(DictGetOr(filter.o, "date_column", JNull))
                /\ SeqHas(CachedColumns(s, s.source_db_name, table).date_columns,
                          DictGet(filter.o, "date_column").s)
\* a filter on P.C, a table without date-typed columns
FilterOnPlainTableDoc ==
    Doc(<< <<"database_name", JStr(SALES)>>,
           <<"data_retention_date", JStr(DateStr(Today))>>,
           <<"tables", JObj(<< <<PC, JObj(<< <<"filter",
                 JObj(<< <<"date_column", JStr(COL_E)>> >>)>> >>)>> >>)>> >>)
\* C16: the filter that the date-filter step leaves on the table it
\* configures names one of the date columns known for that table, in every
\* reachable state and after any load, also when the table has no date
\* column or the column lookup failed.
C16_FilterColumnIsDateColumn ==
    /\ FilterOfCurrentKnown(Cur)
    /\ "load" \in rendered =>
           \A file \in {GoodDoc, FilterOnPlainTableDoc},
              lookup \in {"ok", "fail_date", "fail_all"} :
               FilterOfCurrentKnown(Handle(Cur, [type |-> "load", arg |-> file],
                                           [Healthy EXCEPT !.columns = lookup]))

\* the transform of the table being configured, after the pass of event ev
CurrentTransformAfter(ev) ==
    DictGet(Handle(Cur, ev, Healthy).table_transforms, current_transform_table.s)
MaskOf(tf) == DictGetOr(tf.o, "mask", JNull)
FilterOf(tf) == DictGetOr(tf.o, "filter", JNull)
\* C17: unticking the date filter of a table that has a filter leaves its
\* transform without a "filter" key, and with the mask it had.
C17_DisabledFilterIsRemoved ==
    ("toggle_filter" \in rendered /\ IsDict(CurrentTransform)
        /\ DictHas(CurrentTransform.o, "filter")) =>
        LET after == CurrentTransformAfter([type |-> "toggle_filter", arg |-> FALSE])
        IN  /\ IsDict(after)
            /\ ~DictHas(after.o, "filter")
            /\ DictHas(after.o, "mask") <=> DictHas(CurrentTransform.o, "mask")
            /\ MaskOf(after) = MaskOf(CurrentTransform)
\* the filter of P.O was unticked: its transform is left with the mask alone
C17_FilterUnticked ==
    /\ "toggle_filter" \in rendered
    /\ current_transform_table = JStr(PO)
    /\ CurrentTransform = JObj(<< <<"mask", MaskOf(TransformPO)>> >>)

\* the tag tf holds for a column: that of its last entry, <<>> if the
\* column is not masked
TagOf(tf, column) ==
    LET entries == SelectSeq(MaskEntries(tf),
                             LAMBDA mc : MaskItemOk(mc) /\ DictGet(mc.o, "mask_column") = column)
    IN  IF entries = <<>> THEN <<>>
        ELSE <<DictGetOr(entries[Len(entries)].o, "masked_tag", JStr(<<>>))>>
\* C18: after the masked columns of a table are re-selected, mask.columns
\* lists exactly the selected columns; each one that was masked before has
\* its previous tag and each new one the empty tag.
C18_MaskTagsKept ==
    ("pick_mask" \in rendered /\ IsDict(CurrentTransform)) =>
        \A cols \in PicksOf(CurrentColumns.all_columns, Len(CurrentColumns.all_columns)) :
            LET after == CurrentTransformAfter([type |-> "pick_mask", arg |-> cols])
            IN  /\ MaskedColumns(after) = [i \in 1..Len(cols) |-> JStr(cols[i])]
                /\ \A i \in 1..Len(cols) :
                       TagOf(after, JStr(cols[i])) =
                           IF Len(TagOf(CurrentTransform, JStr(cols[i]))) = 0
                           THEN <<JStr(<<>>)>>
                           ELSE TagOf(CurrentTransform, JStr(cols[i]))
\* column D was added to a mask in which column E carries a tag
C18_TaggedAndNewColumn ==
    /\ "pick_mask" \in rendered
    /\ IsDict(CurrentTransform)
    /\ MaskEntries(CurrentTransform) = <<MaskEntry(COL_E, TAG), MaskEntry(COL_D, <<>>)>>

\* C19: after the masked columns of a table are deselected down to none, the
\* table's transform has no "mask" key at all (not one with an empty list)
\* and its filter is what it was.
C19_EmptyMaskIsRemoved ==
    ("pick_mask" \in rendered /\ IsDict(CurrentTransform)) =>
        LET after == CurrentTransformAfter([type |-> "pick_mask", arg |-> <<>>])
        IN  /\ IsDict(after)
            /\ ~DictHas(after.o, "mask")
            /\ DictHas(after.o, "filter") <=> DictHas(CurrentTransform.o, "filter")
            /\ FilterOf(after) = FilterOf(CurrentTransform)
\* the only masked column of a filtered table was deselected
C19_LastColumnDeselected ==
    /\ "pick_mask" \in rendered
    /\ current_transform_table = JStr(PO)
    /\ CurrentTransform = JObj(<< <<"filter", FilterOf(TransformPO)>> >>)

\* the session after table t is removed, and after it is then added again
AfterRemoving(t) == Handle(Cur, [type |-> "remove", arg |-> <<t>>], Healthy)
AfterReAdding(t) == Handle(AfterRemoving(t), [type |-> "add", arg |-> <<t>>], Healthy)
Configured(tf) == IsDict(tf) /\ (DictHas(tf.o, "filter") \/ DictHas(tf.o, "mask"))
\* C20: removing a selected table that has a filter and/or a mask leaves
\* table_transforms without its key; adding the table again gives it the
\* empty transform, with nothing of the earlier filter or mask.
C20_ReAddedTableIsFresh ==
    "remove" \in rendered =>
        \A i \in 1..Len(selected_tables) :
            LET t == selected_tables[i]
            IN  Configured(DictGet(table_transforms, t)) =>
                    /\ ~SeqHas(AfterRemoving(t).selected_tables, t)
                    /\ ~DictHas(AfterRemoving(t).table_transforms, t)
                    /\ SeqHas(AfterReAdding(t).selected_tables, t)
                    /\ DictGet(AfterReAdding(t).table_transforms, t) = JObj(<<>>)
\* the only selected table, with a filter and a tagged mask, can be removed
\* and comes back as the table being configured, with the empty transform
C20_ConfiguredTableRemovable ==
    /\ "remove" \in rendered
    /\ selected_tables = <<PO>>
    /\ DictGet(table_transforms, PO) = TransformPO
    /\ "add" \in AfterRemoving(PO).rendered
    /\ AfterReAdding(PO).status = "run"
    /\ AfterReAdding(PO).current_transform_table = JStr(PO)
    /\ DictGet(AfterReAdding(PO).table_transforms, PO) = JObj(<<>>)

\* the step is a load that reached reset_app
LoadStep == loaded_file' # NotLoaded
LoadedDatabase == DictGet(JsonLoads(loaded_file').o, "database_name")
LoadedTables == DictGet(JsonLoads(loaded_file').o, "tables")
\* a step that is not a load keeps the database of a session with selected
\* tables unless it empties the selection, and selects only tables of that
\* database; a load that leaves tables selected leaves the document's tables
\* selected under the document's database
TablesStayUnderDatabase ==
    /\ (~LoadStep /\ selected_tables # <<>>) =>
           (source_db_name' = source_db_name \/ selected_tables' = <<>>)
    /\ ~LoadStep =>
           \A i \in 1..Len(selected_tables') :
               \/ SeqHas(selected_tables, selected_tables'[i])
               \/ /\ IsStr(source_db_name')
                  /\ SeqHas(WarehouseTables(source_db_name'.s), selected_tables'[i])
    /\ (LoadStep /\ selected_tables' # <<>>) =>
           /\ source_db_name' = LoadedDatabase
           /\ selected_tables' = DictKeys(LoadedTables.o)
\* C21: while tables are selected a database is selected and its
\* confirmation is not offered, and every step leaves the selected tables
\* under the database they were chosen or loaded under.
C21_DatabaseFixedWhileTablesSelected ==
    /\ [](selected_tables # <<>> => database_selected /\ "confirm_db" \notin rendered)
    /\ [][TablesStayUnderDatabase]_vars
\* a table of the second database was chosen after that database was confirmed
C21_TableChosenUnderDatabase ==
    /\ source_db_name = JStr(HR)
    /\ selected_tables = <<ST>>
    /\ loaded_file = NotLoaded
    /\ "reset" \in rendered
    /\ "confirm_db" \notin rendered

\* the session after Reset and Start Again and the pass that follows it
AfterReset == Handle(Cur, [type |-> "reset", arg |-> JNull], Healthy)
\* C22: reset_app deletes every session key but initial_config and db_list,
\* whose values stay; once the following pass has re-initialised the keys no
\* database is selected and selected_tables, table_transforms,
\* available_tables and the column cache are empty; a second reset and
\* re-initialisation changes nothing more.
C22_ResetClearsAllButPreserved ==
    /\ ResetApp(Cur).present = present \cap {"initial_config", "db_list"}
    /\ ResetApp(Cur).initial_config = initial_config
    /\ ResetApp(Cur).db_list = db_list
    /\ ResetApp(ResetApp(Cur)) = ResetApp(Cur)
    /\ SetDefaults(ResetApp(SetDefaults(ResetApp(Cur)))) = SetDefaults(ResetApp(Cur))
    /\ "reset" \in rendered =>
           /\ AfterReset.present = {"initial_config", "db_list"} \cup KeysInitialised
           /\ AfterReset.initial_config = initial_config
           /\ AfterReset.db_list = db_list
           /\ ~AfterReset.database_selected
           /\ AfterReset.source_db_name = JNull
           /\ AfterReset.selected_tables = <<>>
           /\ AfterReset.table_transforms = <<>>
           /\ AfterReset.available_tables = <<>>
           /\ AfterReset.current_transform_table = JNull
           /\ DOMAIN AfterReset.cached_table_metadata = {}
\* the reset is offered in a session with a configured table and cached
\* columns, and leads to a session without a database
C22_ResetOfConfiguredSession ==
    /\ "reset" \in rendered
    /\ selected_tables = <<PO>>
    /\ Configured(DictGet(table_transforms, PO))
    /\ <<source_db_name, PO>> \in DOMAIN cached_table_metadata
    /\ ~AfterReset.database_selected
    /\ "confirm_db" \in AfterReset.rendered

\* a step that is a full reset: Reset and Start Again, or a load that
\* reached reset_app
FullResetStep == LoadStep \/ (database_selected /\ ~database_selected')
\* every cached entry is still cached, with the same columns
CacheKept ==
    \A p \in DOMAIN cached_table_metadata :
        /\ p \in DOMAIN cached_table_metadata'
        /\ cached_table_metadata'[p] = cached_table_metadata[p]
\* the pass that shows table t while the warehouse answers the column
\* queries as lookup says
PassShowing(t, lookup) ==
    Handle(Cur, [type |-> "pick_table", arg |-> t], [Healthy EXCEPT !.columns = lookup])
FailingLookups == {"fail_all", "fail_date"}
\* a pass that shows a table whose columns are cached sends no column query:
\* a warehouse that fails every such query goes unnoticed
NoLookupWhenCached ==
    "pick_table" \in rendered =>
        \A i \in 1..Len(selected_tables), lookup \in FailingLookups :
            CacheHas(Cur, source_db_name, selected_tables[i]) =>
                /\ "Error fetching column metadata" \notin
                       PassShowing(selected_tables[i], lookup).messages
                /\ CachedColumns(PassShowing(selected_tables[i], lookup), source_db_name,
                                 selected_tables[i])
                       = CachedColumns(Cur, source_db_name, selected_tables[i])
\* C23: once the columns of a table are cached no pass queries the warehouse
\* for them again, and no step other than a reset or a load drops or changes
\* a cached entry.
C23_ColumnsLookedUpOnce ==
    /\ []NoLookupWhenCached
    /\ [][FullResetStep \/ CacheKept]_vars
\* the columns of two tables are cached and the first one is shown again
C23_BackOnCachedTable ==
    /\ "pick_table" \in rendered
    /\ selected_tables = <<PO, PC>>
    /\ current_transform_table = JStr(PO)
    /\ CacheHas(Cur, source_db_name, PO)
    /\ CacheHas(Cur, source_db_name, PC)

\* C24: when the column lookup of a table that is not cached fails, at the
\* first query or at the second, the pass leaves no cache entry for the table.
C24_FailedLookupNotCached ==
    "pick_table" \in rendered =>
        \A i \in 1..Len(selected_tables), lookup \in FailingLookups :
            ~CacheHas(Cur, source_db_name, selected_tables[i]) =>
                ~CacheHas(PassShowing(selected_tables[i], lookup), source_db_name,
                          selected_tables[i])

\* C25: no pass ends with an uncaught exception, whatever failed in it or in
\* the pass before it.
C25_NoPassCrashes == status # "crash"

Exported(key) == DictGetOr(final_json_output.o, key, JNull)
\* C26: the export document of a pass is determined by the session the pass
\* ends in, its "tables" value being table_transforms as it is; building it
\* changes nothing in the session; and the next pass without an interaction,
\* when it gets as far as the export, builds the same document.
C26_ExportIsFunctionOfState ==
    "download" \in rendered =>
        /\ IsDict(final_json_output)
        /\ DictKeys(final_json_output.o) =
               <<"database_name", "data_retention_date", "share_created_by",
                 "share_requested_by", "share_requested_reason", "filter_date", "tables">>
        /\ Exported("tables") = JObj(table_transforms)
        /\ Exported("database_name") = source_db_name
        /\ Exported("data_retention_date") = JStr(DateStr(data_retention_date))
        /\ Exported("filter_date") = JStr(DateStr(global_filter_date))
        /\ Exported("share_requested_by") = share_requested_by
        /\ Exported("share_requested_reason") = share_requested_reason
        /\ [ExportSection(Cur) EXCEPT !.final_json_output = final_json_output,
                                      !.rendered = rendered] = Cur
        /\ ExportSection(Cur).final_json_output = final_json_output
        /\ "download" \in Handle(Cur, NoEvent, Healthy).rendered =>
               Handle(Cur, NoEvent, Healthy).final_json_output = final_json_output
\* the export of a session with a filter and a tagged mask on one table and
\* no transform on another
C26_ExportedFilterAndMask ==
    /\ "download" \in rendered
    /\ selected_tables = <<PO, PC>>
    /\ Exported("tables") = JObj(<< <<PO, TransformPO>>, <<PC, JObj(<<>>)>> >>)

\* dates offered to the global filter date input, which has no bounds
AnyDates == {Today, Earlier, NeverExpires, <<1999, 1, 1>>}
AfterFilterDate(d) == Handle(Cur, [type |-> "filter_date", arg |-> d], Healthy)
\* C27: picking any global filter date stores that date in global_filter_date
\* and changes no other part of the configuration, table_transforms
\* included; the export of the pass carries it as filter_date.
C27_FilterDateChangesOnlyItself ==
    "filter_date" \in rendered =>
        \A d \in AnyDates :
            /\ AfterFilterDate(d).global_filter_date = d
            /\ ConfigurationOf(AfterFilterDate(d)) =
                   [ConfigurationOf(Cur) EXCEPT !.global_filter_date = d]
            /\ AfterFilterDate(d).cached_table_metadata = cached_table_metadata
            /\ "download" \in AfterFilterDate(d).rendered =>
                   DictGetOr(AfterFilterDate(d).final_json_output.o, "filter_date", JNull)
                       = JStr(DateStr(d))
\* the filter date is the earlier one in a session with a filtered table,
\* whose filter holds the date column and nothing else
C27_EarlierDateWithFilter ==
    /\ "filter_date" \in rendered
    /\ "download" \in rendered
    /\ loaded_file = NotLoaded
    /\ global_filter_date = Earlier
    /\ Exported("filter_date") = JStr(DateStr(Earlier))
    /\ IsDict(CurrentTransform)
    /\ FilterOf(CurrentTransform) = JObj(<< <<"date_column", JStr(COL_D)>> >>)

AfterRemove(to_remove) == Handle(Cur, [type |-> "remove", arg |-> to_remove], Healthy)
AfterAdd(to_select) == Handle(Cur, [type |-> "add", arg |-> to_select], Healthy)
\* what the Remove handler is to leave in current_transform_table
CurrentAfterRemoving(to_remove, remaining) ==
    IF \E i \in 1..Len(to_remove) : current_transform_table = JStr(to_remove[i])
    THEN IF remaining # <<>> THEN JStr(remaining[1]) ELSE JNull
    ELSE current_transform_table
\* what the Add handler is to leave in current_transform_table
CurrentAfterAdding(to_select) ==
    IF current_transform_table = JNull THEN JStr(to_select[1]) ELSE current_transform_table
\* C28: Remove Selected Tables changes current_transform_table only if the
\* table it names is removed, to the first table left or to None; Add
\* Selected Tables changes it only if it is unset, to the first table added.
\* Both hold for the handler alone and for the handler with the pass that
\* follows it.
C28_CurrentTableReassignment ==
    /\ "remove" \in rendered =>
           \A to_remove \in PicksOf(selected_tables, MaxPick) \ {<<>>} :
               /\ RemoveTables(Cur, to_remove).current_transform_table =
                      CurrentAfterRemoving(to_remove, RemoveTables(Cur, to_remove).selected_tables)
               /\ AfterRemove(to_remove).current_transform_table =
                      CurrentAfterRemoving(to_remove, AfterRemove(to_remove).selected_tables)
    /\ "add" \in rendered =>
           \A to_select \in PicksOf(AvailableOptions(Cur), MaxPick) \ {<<>>} :
               /\ AddTables(Cur, to_select).current_transform_table =
                      CurrentAfterAdding(to_select)
               /\ AfterAdd(to_select).current_transform_table = CurrentAfterAdding(to_select)
\* of two selected tables the second is being configured and either can be
\* removed: removing it moves on to the first, removing the first does not
C28_SecondOfTwoConfigured ==
    /\ "remove" \in rendered
    /\ selected_tables = <<PO, PC>>
    /\ current_transform_table = JStr(PC)
    /\ AfterRemove(<<PC>>).current_transform_table = JStr(PO)
    /\ AfterRemove(<<PO>>).current_transform_table = JStr(PC)
    /\ AfterRemove(<<PO, PC>>).current_transform_table = JNull
\* C29: current_transform_table is None exactly when no table is selected,
\* and otherwise names a selected table.
C29_CurrentTableIsSelected ==
    /\ current_transform_table = JNull <=> selected_tables = <<>>
    /\ current_transform_table # JNull =>
           /\ IsStr(current_transform_table)
           /\ SeqHas(selected_tables, current_transform_table.s)

\* what the Load Configuration handler leaves at its st.rerun()
Loaded(file, tables_ok) == ProcessUploadedConfig(Cur, file, tables_ok)
LoadableFiles == UploadedFiles \cup {FilterOnPlainTableDoc}
\* the handler's result for a document with the given database and tables
ReplacedBy(r, db, tables, tables_ok) ==
    /\ r.database_selected
    /\ r.source_db_name = db
    /\ r.selected_tables = DictKeys(tables.o)
    /\ r.table_transforms = tables.o
    /\ r.current_transform_table =
           IF tables.o # <<>> THEN JStr(tables.o[1][1]) ELSE JNull
    /\ DOMAIN r.cached_table_metadata = {}
    /\ r.available_tables =
           IF tables_ok /\ IsStr(db) THEN WarehouseTables(db.s) ELSE <<>>
\* C30: a load that reaches its st.rerun() leaves the document's database,
\* the keys of the document's tables in document order as selected tables,
\* the document's tables as transforms, the first of them (or None) as the
\* table being configured, an empty column cache and the table list of the
\* loaded database; the result does not depend on the session it started in.
C30_LoadReplacesConfiguration ==
    \A file \in LoadableFiles, tables_ok \in BOOLEAN :
        Loaded(file, tables_ok).status = "rerun" =>
            /\ ReplacedBy(Loaded(file, tables_ok),
                          DictGet(JsonLoads(file).o, "database_name"),
                          DictGet(JsonLoads(file).o, "tables"), tables_ok)
            /\ Loaded(file, tables_ok) = ProcessUploadedConfig(ResetApp(Cur), file, tables_ok)
\* a session configured on the second database, with cached columns, in
\* which a document of the first database can be loaded
C30_LoadOverOtherDatabase ==
    /\ "load" \in rendered
    /\ source_db_name = JStr(HR)
    /\ selected_tables = <<ST>>
    /\ CacheHas(Cur, source_db_name, ST)
    /\ Loaded(GoodDoc, TRUE).status = "rerun"
    /\ Loaded(GoodDoc, TRUE).source_db_name = JStr(SALES)
    /\ Loaded(GoodDoc, TRUE).selected_tables = <<PO, PC>>

\* session r differs from the present one, as far as tables go, in the
\* transform of the table r is configuring and in nothing else
OnlyCurrentChanged(r) ==
    /\ r.source_db_name = source_db_name
    /\ r.selected_tables = selected_tables
    /\ DictKeys(r.table_transforms) = DictKeys(table_transforms)
    /\ \A i \in 1..Len(table_transforms) :
           JStr(table_transforms[i][1]) # r.current_transform_table =>
               r.table_transforms[i] = table_transforms[i]
PassWith(kind, arg) == Handle(Cur, [type |-> kind, arg |-> arg], Healthy)
\* C31: a pass in which the date filter, the date column, the masked
\* columns or the raw JSON of a table is changed, or another table is picked
\* for configuration, or nothing is done, leaves source_db_name,
\* selected_tables and the transform of every table but the one being
\* configured as they were.
C31_OnlyCurrentTransformChanges ==
    /\ "pick_table" \in rendered =>
           /\ OnlyCurrentChanged(PassWith("none", JNull))
           /\ \A i \in 1..Len(selected_tables) :
                  OnlyCurrentChanged(PassWith("pick_table", selected_tables[i]))
    /\ "toggle_filter" \in rendered =>
           \A b \in BOOLEAN : OnlyCurrentChanged(PassWith("toggle_filter", b))
    /\ "pick_date_col" \in rendered =>
           \A c \in SeqSet(CurrentColumns.date_columns) :
               OnlyCurrentChanged(PassWith("pick_date_col", c))
    /\ "pick_mask" \in rendered =>
           \A cols \in PicksOf(CurrentColumns.all_columns, Len(CurrentColumns.all_columns)) :
               OnlyCurrentChanged(PassWith("pick_mask", cols))
    /\ "edit_json" \in rendered =>
           \A text \in EditedTexts(CurrentTransform) :
               OnlyCurrentChanged(PassWith("edit_json", text))
\* the second of two tables was given a mask while the first kept its filter
\* and its tagged mask
C31_SecondTableMasked ==
    /\ "pick_mask" \in rendered
    /\ current_transform_table = JStr(PC)
    /\ table_transforms =
           << <<PO, TransformPO>>,
              <<PC, JObj(<< <<"mask", JObj(<< <<"columns",
                                 JArr(<<MaskEntry(COL_E, <<>>)>>)>> >>)>> >>)>> >>

\* the statements of one kind in a log
OfKind(log, kind) == SelectSeq(Statements(log), LAMBDA st : st.kind = kind)
SelectedSchemas == {SplitFirst(selected_tables[i]) : i \in 1..Len(selected_tables)}
\* the grants of a log are those of the selection: one per schema, one per
\* table, on source_db_name, and the reference grant iff ref is not blank
GrantsMatchSelection(log, ref) ==
    /\ Len(OfKind(log, "GRANT USAGE ON SCHEMA")) = Cardinality(SelectedSchemas)
    /\ \A sc \in SelectedSchemas :
           Count(Statements(log),
                 Stmt("GRANT USAGE ON SCHEMA", Qualified(source_db_name.s, sc))) = 1
    /\ Len(OfKind(log, "GRANT SELECT ON TABLE")) = Len(selected_tables)
    /\ \A i \in 1..Len(selected_tables) :
           Count(Statements(log),
                 Stmt("GRANT SELECT ON TABLE",
                      Qualified(source_db_name.s, selected_tables[i]))) = 1
    /\ OfKind(log, "GRANT USAGE ON DATABASE") =
           <<Stmt("GRANT USAGE ON DATABASE", source_db_name.s)>>
    /\ OfKind(log, "GRANT REFERENCE_USAGE ON DATABASE") =
           IF Strip(ref) # <<>>
           THEN <<Stmt("GRANT REFERENCE_USAGE ON DATABASE", Strip(ref))>> ELSE <<>>
\* the log of a share created in the present session if config.toml named
\* ref as reference database
LogWithReference(ref, order) ==
    CreateDataShare([Cur EXCEPT !.initial_config.reference_database = ref],
                    GetDataShareName(Cur, DEV), 0, order).sql_log
ReferenceDatabases == {<<>>, <<" ">>, <<" ", "R">>, <<"R", " ">>}
\* C32: the statements of a share that was created hold one schema grant for
\* each distinct schema of the selected tables, one select grant for each
\* selected table, all under source_db_name, none for anything else, and the
\* reference-usage grant exactly when the reference database of config.toml
\* is not blank; the same for any reference database, blank ones included.
C32_GrantsAreThoseOfTheSelection ==
    /\ "Share created successfully" \in messages =>
           GrantsMatchSelection(sql_log, initial_config.reference_database)
    /\ "create_share" \in rendered =>
           \A ref \in ReferenceDatabases, order \in SchemaOrders :
               GrantsMatchSelection(LogWithReference(ref, order), ref)
\* a share of two tables of one schema was created, with a reference database
C32_TwoTablesOneSchema ==
    /\ "Share created successfully" \in messages
    /\ Len(selected_tables) = 2
    /\ SelectedSchemas = {<<"P">>}
    /\ Len(OfKind(sql_log, "GRANT USAGE ON SCHEMA")) = 1
    /\ Len(OfKind(sql_log, "GRANT SELECT ON TABLE")) = 2
    /\ Len(OfKind(sql_log, "GRANT REFERENCE_USAGE ON DATABASE")) = 1

\* C33: after Reset and Start Again and the pass that follows it, every
\* configuration field, data_retention_date included, has the value it has
\* after the first pass of a new session with the same config.toml.
C33_ResetGivesFreshConfiguration ==
    "reset" \in rendered => ConfigurationOf(AfterReset) = ConfigurationOf(FreshSession)

\* C34: a pass that stopped because the database list could not be fetched
\* leaves db_list out of the session, and the next pass, with the warehouse
\* answering, fetches the list and offers the databases; so does the pass
\* after a reset in a session that holds no databases.
C34_DatabaseListRetried ==
    /\ status = "stop" =>
           /\ "db_list" \notin present
           /\ Handle(Cur, NoEvent, Healthy).db_list = WarehouseDatabases
           /\ "confirm_db" \in Handle(Cur, NoEvent, Healthy).rendered
    /\ ("reset" \in rendered /\ db_list = <<>>) =>
           /\ AfterReset.db_list = WarehouseDatabases
           /\ "confirm_db" \in AfterReset.rendered
====
